---------------------------- MODULE Spec2Model ----------------------------
(***************************************************************************)
(* Model of the scoring and issue-identification engine of ilanit17/mtsss: *)
(*   src/DynamicDataAnalyzer.tsx  - performAnalysis / getTier, the         *)
(*                                  aggregate averages, the report card    *)
(*   src/unnamed/part_000         - IssueSelectionStep / analyzeSchoolData *)
(*   src/schoolAssessmentTypes.ts - Step1_DataMapping (the score table)    *)
(*                                                                         *)
(* Strings are sequences of one-character strings so that parseInt and     *)
(* parseFloat are real parsers.  A JavaScript number that is the quotient  *)
(* of two small integers is kept as a reduced fraction (two such quotients *)
(* are equal, or ordered, as doubles exactly when they are as fractions).  *)
(* The urgency computation multiplies by the inexact literals 0.6 and 0.4, *)
(* so it is carried out in IEEE-754 binary64 (see the Dbl operators).      *)
(***************************************************************************)
EXTENDS Integers, Sequences, FiniteSets, TLC

VARIABLES
    schoolsData,         \* DynamicDataAnalyzer prop: the score table (School[])
    nextId,              \* Step1_DataMapping state: the id of the next added school
    removedIds,          \* history: the ids of the schools removed from the table
    pendingEffect,       \* the analysis effect is scheduled for the last render
    analysisData,        \* DynamicDataAnalyzer state: AnalysisData | null
    schools,             \* IssueSelectionStep prop: SchoolForAnalysis[]
    selectedFocusAreas,  \* IssueSelectionStep prop: string[]
    issues,              \* IssueSelectionStep state: Issue[]
    isAnalyzing,         \* IssueSelectionStep state: boolean
    selectedIssues,      \* IssueSelectionStep state: string[] (issue ids)
    onCompleteCall,      \* what onComplete was called with, if it was
    timer,               \* the pending setTimeout callback with what it closes over
    timeouts,            \* the callbacks scheduled with setTimeout and not yet run or cleared
    mounted,             \* IssueSelectionStep is mounted
    prevSchools,         \* history: the schools analysed before the last change of props
    prevIssues           \* history: the issues identified for prevSchools

vars == <<schoolsData, nextId, removedIds, pendingEffect, analysisData, schools,
          selectedFocusAreas, issues, isAnalyzing, selectedIssues, onCompleteCall,
          timer, timeouts, mounted, prevSchools, prevIssues>>

tableVars == <<schoolsData, nextId, removedIds>>

issueStepVars == <<schools, selectedFocusAreas, issues, isAnalyzing, selectedIssues,
                   onCompleteCall, timer, timeouts, mounted, prevSchools, prevIssues>>

selectionVars == <<selectedIssues, onCompleteCall>>

(***************************************************************************)
(* Bounds of the model.                                                    *)
(***************************************************************************)
NumFields == 7        \* number of metric keys in ALL_SCORE_FIELDS
MaxIssueSchools == 8  \* schools in the table handed to the issue step
MaxMonoSchools == 3   \* schools in each of two successive tables
MaxAvgSchools == 3    \* rows of the table whose averages are taken
MaxSummarySchools == 3 \* rows of the table that is summarised
MaxTableSchools == 2  \* rows of the table that is edited, and the ids given out
MaxStaleSchools == 2  \* schools of the tables the issue step is rendered with
MaxRankSchools == 8   \* schools of the tables whose issues are ranked
MaxSelectSchools == 2 \* schools of the tables whose issues are selected

(***************************************************************************)
(* Sequence helpers (Array.prototype.map / reduce / flatMap).              *)
(***************************************************************************)
RECURSIVE SumSeq(_)
SumSeq(s) == IF s = <<>> THEN 0 ELSE Head(s) + SumSeq(Tail(s))

RECURSIVE FlatSeq(_)
FlatSeq(ss) == IF ss = <<>> THEN <<>> ELSE Head(ss) \o FlatSeq(Tail(ss))

MapSeq(s, F(_)) == [i \in 1..Len(s) |-> F(s[i])]

Includes(s, x) == \E i \in 1..Len(s) : s[i] = x

\* F(v), with v evaluated once however often F uses its argument.
Bind(v, F(_)) == CHOOSE r \in { F(x) : x \in {v} } : TRUE

(***************************************************************************)
(* JavaScript numbers that are exact small rationals.                      *)
(***************************************************************************)
RECURSIVE Gcd(_, _)
Gcd(a, b) == IF b = 0 THEN a ELSE Gcd(b, a % b)

Abs(x) == IF x < 0 THEN -x ELSE x

NaN == [nan |-> TRUE, n |-> 0, d |-> 1]

\* n/d in lowest terms, d > 0.
Rat(n, d) ==
    LET g == Gcd(Abs(n), d)
    IN  [nan |-> FALSE, n |-> n \div g, d |-> d \div g]

Num(k) == Rat(k, 1)

isNaN(x) == x.nan

RatAdd(x, y) == Rat(x.n * y.d + y.n * x.d, x.d * y.d)

\* x / k for a positive integer k.
RatDivInt(x, k) == Rat(x.n, x.d * k)

\* Comparisons; every comparison with NaN is false.
RatLt(x, y) == ~x.nan /\ ~y.nan /\ x.n * y.d < y.n * x.d
RatLe(x, y) == ~x.nan /\ ~y.nan /\ x.n * y.d <= y.n * x.d
RatGt(x, y) == RatLt(y, x)
RatGe(x, y) == RatLe(y, x)

RECURSIVE RatSum(_)
RatSum(s) == IF s = <<>> THEN Num(0) ELSE RatAdd(Head(s), RatSum(Tail(s)))

\* x || 0 : NaN and 0 are falsy.
OrZero(x) == IF x.nan \/ x.n = 0 THEN Num(0) ELSE x

(***************************************************************************)
(* IEEE-754 binary64 arithmetic on positive numbers.                       *)
(*                                                                         *)
(* A natural number of any size is a little-endian sequence of limbs in    *)
(* base 2^15 with no leading zero limb (<<>> is 0).  A double is           *)
(* [m |-> M, e |-> E] standing for M * 2^E with M of exactly 53 bits, or   *)
(* DblZero.  Every operation computes the exact result and rounds it to    *)
(* nearest, ties to even, as the hardware does.                            *)
(***************************************************************************)
LimbBase == 32768
LimbBits == 15
MantBits == 53

RECURSIVE Pow2(_)
Pow2(k) == IF k = 0 THEN 1 ELSE 2 * Pow2(k - 1)

\* Bits of a natural number below LimbBase.
RECURSIVE SmallBits(_)
SmallBits(x) == IF x = 0 THEN 0 ELSE 1 + SmallBits(x \div 2)

RECURSIVE BigTrim(_)
BigTrim(x) ==
    IF x # <<>> /\ x[Len(x)] = 0 THEN BigTrim(SubSeq(x, 1, Len(x) - 1)) ELSE x

BigOfInt(k) ==
    BigTrim(<<k % LimbBase, (k \div LimbBase) % LimbBase,
              k \div (LimbBase * LimbBase)>>)

\* The value of a number of at most two limbs.
BigToInt(x) ==
    IF x = <<>> THEN 0
    ELSE IF Len(x) = 1 THEN x[1]
    ELSE x[1] + LimbBase * x[2]

BigBitLen(x) ==
    IF x = <<>> THEN 0 ELSE LimbBits * (Len(x) - 1) + SmallBits(x[Len(x)])

RECURSIVE BigAddC(_, _, _)
BigAddC(x, y, c) ==
    IF x = <<>> /\ y = <<>> THEN (IF c = 0 THEN <<>> ELSE <<c>>)
    ELSE LET a == IF x = <<>> THEN 0 ELSE Head(x)
             b == IF y = <<>> THEN 0 ELSE Head(y)
             t == a + b + c
         IN  <<t % LimbBase>> \o
             BigAddC(IF x = <<>> THEN <<>> ELSE Tail(x),
                     IF y = <<>> THEN <<>> ELSE Tail(y), t \div LimbBase)

BigAdd(x, y) == BigAddC(x, y, 0)

\* x * k + c for 0 <= k, c < LimbBase.
RECURSIVE BigMulSmallC(_, _, _)
BigMulSmallC(x, k, c) ==
    IF x = <<>> THEN (IF c = 0 THEN <<>> ELSE <<c>>)
    ELSE LET t == Head(x) * k + c
         IN  <<t % LimbBase>> \o BigMulSmallC(Tail(x), k, t \div LimbBase)

BigMulSmall(x, k) == BigTrim(BigMulSmallC(x, k, 0))

RECURSIVE BigMul(_, _)
BigMul(x, y) ==
    IF y = <<>> \/ x = <<>> THEN <<>>
    ELSE BigAdd(BigMulSmall(x, Head(y)),
                Bind(BigMul(x, Tail(y)), LAMBDA r : IF r = <<>> THEN <<>> ELSE <<0>> \o r))

\* -1, 0, 1 as x <, =, > y.
RECURSIVE BigCmp(_, _)
BigCmp(x, y) ==
    IF Len(x) # Len(y) THEN (IF Len(x) < Len(y) THEN -1 ELSE 1)
    ELSE IF x = <<>> THEN 0
    ELSE IF x[Len(x)] # y[Len(y)] THEN (IF x[Len(x)] < y[Len(y)] THEN -1 ELSE 1)
    ELSE BigCmp(SubSeq(x, 1, Len(x) - 1), SubSeq(y, 1, Len(y) - 1))

\* x * 2^s.
BigShl(x, s) ==
    IF x = <<>> THEN <<>>
    ELSE [i \in 1..(s \div LimbBits) |-> 0] \o BigMulSmall(x, Pow2(s % LimbBits))

\* floor(x / k) and x mod k for 0 < k < LimbBase, most significant limb first.
RECURSIVE BigDivSmallR(_, _, _)
BigDivSmallR(x, k, r) ==
    IF x = <<>> THEN [q |-> <<>>, r |-> r]
    ELSE Bind(r * LimbBase + x[Len(x)], LAMBDA t :
            Bind(BigDivSmallR(SubSeq(x, 1, Len(x) - 1), k, t % k), LAMBDA rest :
                [q |-> rest.q \o <<t \div k>>, r |-> rest.r]))

BigDivSmall(x, k) ==
    Bind(BigDivSmallR(x, k, 0), LAMBDA d : [q |-> BigTrim(d.q), r |-> d.r])

\* floor(x / 2^s), and the part shifted out: 0 if none of it is set, 1 if it
\* is below half, 2 if exactly half, 3 if above half of 2^s.
BigShr(x0, s0) ==
    Bind(<<x0, s0>>, LAMBDA a :
        LET x  == a[1]
            s  == a[2]
            nl == s \div LimbBits
            nb == s % LimbBits
            lo == BigTrim(SubSeq(x, 1, IF nl < Len(x) THEN nl ELSE Len(x)))
            hi == IF nl < Len(x) THEN SubSeq(x, nl + 1, Len(x)) ELSE <<>>
        IN  Bind(BigDivSmall(hi, Pow2(nb)), LAMBDA d :
            Bind(BigAdd(lo, BigShl(BigOfInt(d.r), nl * LimbBits)), LAMBDA rem :
            Bind(BigCmp(rem, BigShl(<<1>>, s - 1)), LAMBDA c :
                [q |-> d.q,
                 out |-> IF s = 0 \/ rem = <<>> THEN 0
                         ELSE IF c < 0 THEN 1 ELSE IF c = 0 THEN 2 ELSE 3]))))

DblZero == [m |-> <<>>, e |-> 0]

\* The double nearest to n * 2^e (+ a little, when sticky), ties to even.
DblRound(n0, e0, sticky0) ==
    Bind(<<n0, e0, sticky0>>, LAMBDA a :
        LET n      == a[1]
            e      == a[2]
            sticky == a[3]
        IN  IF n = <<>> THEN DblZero
            ELSE Bind(BigBitLen(n), LAMBDA bl :
                 IF bl <= MantBits
                 THEN [m |-> BigShl(n, MantBits - bl), e |-> e - (MantBits - bl)]
                 ELSE Bind(BigShr(n, bl - MantBits), LAMBDA sh :
                      Bind(IF \/ sh.out = 3
                              \/ sh.out = 2 /\ (sticky \/ sh.q[1] % 2 = 1)
                           THEN BigAdd(sh.q, <<1>>) ELSE sh.q, LAMBDA m1 :
                          IF BigBitLen(m1) > MantBits
                          THEN [m |-> BigShr(m1, 1).q, e |-> e + (bl - MantBits) + 1]
                          ELSE [m |-> m1, e |-> e + (bl - MantBits)]))))

DblOfInt(k) == DblRound(BigOfInt(k), 0, FALSE)

\* a / b for natural numbers a and 0 < b < LimbBase: the quotient is taken to
\* 75 fractional bits, and what is left of it is the sticky bit.
DblDivInt(a, b) ==
    Bind(BigDivSmall(BigShl(BigOfInt(a), 75), b), LAMBDA d :
        DblRound(d.q, -75, d.r # 0))

\* A decimal literal n/d of the source text (0.6 is DblLit(6, 10)).
DblLit(n, d) == DblDivInt(n, d)

DblMul(x0, y0) ==
    Bind(<<x0, y0>>, LAMBDA a :
        LET x == a[1]
            y == a[2]
        IN  IF x = DblZero \/ y = DblZero THEN DblZero
            ELSE DblRound(BigMul(x.m, y.m), x.e + y.e, FALSE))

DblAdd(x0, y0) ==
    Bind(<<x0, y0>>, LAMBDA a :
        LET x == a[1]
            y == a[2]
        IN  IF x = DblZero THEN y
            ELSE IF y = DblZero THEN x
            ELSE IF x.e >= y.e
                 THEN DblRound(BigAdd(BigShl(x.m, x.e - y.e), y.m), y.e, FALSE)
                 ELSE DblRound(BigAdd(BigShl(y.m, y.e - x.e), x.m), x.e, FALSE))

\* x > y.
DblGt(x0, y0) ==
    Bind(<<x0, y0>>, LAMBDA a :
        LET x == a[1]
            y == a[2]
        IN  IF x = DblZero THEN FALSE
            ELSE IF y = DblZero THEN TRUE
            ELSE IF x.e # y.e THEN x.e > y.e
            ELSE BigCmp(x.m, y.m) > 0)

\* Math.round(x): the integer nearest to x, a tie going up.
MathRound(x0) ==
    Bind(x0, LAMBDA x :
        IF x = DblZero THEN 0
        ELSE IF x.e >= 0 THEN BigToInt(BigShl(x.m, x.e))
        ELSE Bind(BigShr(x.m, -x.e), LAMBDA sh :
                 BigToInt(sh.q) + (IF sh.out >= 2 THEN 1 ELSE 0)))

(***************************************************************************)
(* parseInt(string, 10) and parseFloat(string).                            *)
(***************************************************************************)
DigitChars == <<"0", "1", "2", "3", "4", "5", "6", "7", "8", "9">>

IsDigit(c) == \E i \in 1..10 : DigitChars[i] = c

DigitVal(c) == (CHOOSE i \in 1..10 : DigitChars[i] = c) - 1

RECURSIVE SkipSpaces(_)
SkipSpaces(s) ==
    IF s # <<>> /\ Head(s) = " " THEN SkipSpaces(Tail(s)) ELSE s

\* The longest prefix of s made of digits.
RECURSIVE DigitPrefix(_)
DigitPrefix(s) ==
    IF s # <<>> /\ IsDigit(Head(s))
    THEN <<Head(s)>> \o DigitPrefix(Tail(s))
    ELSE <<>>

RECURSIVE DigitsValue(_)
DigitsValue(ds) ==
    IF ds = <<>> THEN 0
    ELSE DigitsValue(SubSeq(ds, 1, Len(ds) - 1)) * 10 + DigitVal(ds[Len(ds)])

RECURSIVE Pow10(_)
Pow10(k) == IF k = 0 THEN 1 ELSE 10 * Pow10(k - 1)

\* Sign and rest of a trimmed numeric string.
SignOf(t) == IF t # <<>> /\ Head(t) = "-" THEN -1 ELSE 1
Unsigned(t) == IF t # <<>> /\ Head(t) \in {"-", "+"} THEN Tail(t) ELSE t

parseInt(s) ==
    LET t  == SkipSpaces(s)
        ds == DigitPrefix(Unsigned(t))
    IN  IF ds = <<>> THEN NaN ELSE Num(SignOf(t) * DigitsValue(ds))

parseFloat(s) ==
    LET t    == SkipSpaces(s)
        u    == Unsigned(t)
        ip   == DigitPrefix(u)
        rest == SubSeq(u, Len(ip) + 1, Len(u))
        fp   == IF rest # <<>> /\ Head(rest) = "."
                THEN DigitPrefix(Tail(rest)) ELSE <<>>
    IN  IF ip = <<>> /\ fp = <<>> THEN NaN
        ELSE Rat(SignOf(t) * (DigitsValue(ip) * Pow10(Len(fp)) + DigitsValue(fp)),
                 Pow10(Len(fp)))

(***************************************************************************)
(* The taxonomy ('../constants').                                          *)
(***************************************************************************)
ALL_SCORE_FIELDS == [i \in 1..NumFields |-> i]

HIERARCHICAL_CATEGORIES ==
    << [name |-> "catA",
        subCategories |->
          << [name |-> "subA1", metrics |-> <<1, 2>>],
             [name |-> "subA2", metrics |-> <<3>>] >>],
       [name |-> "catB",
        subCategories |->
          << [name |-> "subB1", metrics |-> <<4>>],
             [name |-> "subB2", metrics |-> <<5>>],
             [name |-> "subB3", metrics |-> <<6>>],
             [name |-> "subB4", metrics |-> [i \in 1..(NumFields - 6) |-> i + 6]] >>] >>

(***************************************************************************)
(* School rows.                                                            *)
(***************************************************************************)
\* createEmptySchool: every administrative field and every score slot ''.
createEmptySchool(id) ==
    [id |-> id, name |-> <<>>, principal |-> <<>>, students |-> <<>>,
     supportLevel |-> <<>>, notes |-> <<>>,
     scores |-> [f \in 1..NumFields |-> <<>>]]

\* school[field] for a metric key.
Slot(school, field) == school.scores[field]

(***************************************************************************)
(* performAnalysis / getTier.                                              *)
(***************************************************************************)
\* const allScores = ALL_SCORE_FIELDS.map(parseFloat(..) || 0).filter(s => s > 0)
tierScores(school) ==
    SelectSeq(MapSeq(ALL_SCORE_FIELDS,
                     LAMBDA field : OrZero(parseFloat(Slot(school, field)))),
              LAMBDA score : RatGt(score, Num(0)))

tierCritical(allScores) ==
    Len(SelectSeq(allScores, LAMBDA score : RatLe(score, Rat(15, 10))))

\* Mutants of getTier (plausible slips), used to show that the tier claims
\* depend on the code.
getTier_min4(school) ==
    LET allScores == tierScores(school)
        overallAverage == RatDivInt(RatSum(allScores), Len(allScores))
    IN  IF Len(allScores) < 4 THEN 2
        ELSE IF RatLt(overallAverage, Rat(22, 10)) THEN 3
        ELSE IF RatGt(overallAverage, Rat(32, 10)) /\ tierCritical(allScores) < 2 THEN 1
        ELSE 2

getTier_lowNeedsCritical(school) ==
    LET allScores == tierScores(school)
        overallAverage == RatDivInt(RatSum(allScores), Len(allScores))
    IN  IF Len(allScores) < 5 THEN 2
        ELSE IF RatLt(overallAverage, Rat(22, 10)) /\ tierCritical(allScores) > 0 THEN 3
        ELSE IF RatGt(overallAverage, Rat(32, 10)) /\ tierCritical(allScores) < 2 THEN 1
        ELSE 2

getTier_highInclusive(school) ==
    LET allScores == tierScores(school)
        overallAverage == RatDivInt(RatSum(allScores), Len(allScores))
    IN  IF Len(allScores) < 5 THEN 2
        ELSE IF RatLt(overallAverage, Rat(22, 10)) THEN 3
        ELSE IF RatGe(overallAverage, Rat(32, 10)) /\ tierCritical(allScores) < 2 THEN 1
        ELSE 2

getTier_countsStudents(school) ==
    LET allScores ==
            tierScores(school) \o
            SelectSeq(<<OrZero(parseFloat(school.students))>>,
                      LAMBDA score : RatGt(score, Num(0)))
        overallAverage == RatDivInt(RatSum(allScores), Len(allScores))
    IN  IF Len(allScores) < 5 THEN 2
        ELSE IF RatLt(overallAverage, Rat(22, 10)) THEN 3
        ELSE IF RatGt(overallAverage, Rat(32, 10)) /\ tierCritical(allScores) < 2 THEN 1
        ELSE 2

getTier(school) ==
    LET allScores == tierScores(school)
        overallAverage == RatDivInt(RatSum(allScores), Len(allScores))
        criticalScoresCount == tierCritical(allScores)
    IN  IF Len(allScores) < 5 THEN 2
        ELSE IF RatLt(overallAverage, Rat(22, 10)) THEN 3
        ELSE IF RatGt(overallAverage, Rat(32, 10)) /\ criticalScoresCount < 2 THEN 1
        ELSE 2

SchoolForAnalysis(school) ==
    [id |-> school.id, name |-> school.name, principal |-> school.principal,
     students |-> school.students, supportLevel |-> school.supportLevel,
     notes |-> school.notes, scores |-> school.scores,
     tier |-> getTier(school)]

NullAnalysis == [isNull |-> TRUE]

performAnalysis_tier2AsLow(data) ==
    LET schoolsForAnalysis == MapSeq(data, SchoolForAnalysis)
        tier1 == SelectSeq(schoolsForAnalysis, LAMBDA s : s.tier = 1)
        tier2 == SelectSeq(schoolsForAnalysis, LAMBDA s : s.tier = 2)
        tier3 == SelectSeq(schoolsForAnalysis, LAMBDA s : s.tier = 3)
        summary ==
            [totalSchools |-> Len(data),
             totalStudents |->
                SumSeq(MapSeq(data, LAMBDA s : OrZero(parseInt(s.students)).n)),
             lowPerformanceSchools |-> Len(tier2),
             excellentSchools |-> Len(tier1)]
    IN  [isNull |-> FALSE,
         schools |-> schoolsForAnalysis,
         summary |-> summary,
         performanceClassification |->
            [tier1 |-> tier1, tier2 |-> tier2, tier3 |-> tier3]]

performAnalysis(data) ==
    LET schoolsForAnalysis == MapSeq(data, SchoolForAnalysis)
        tier1 == SelectSeq(schoolsForAnalysis, LAMBDA s : s.tier = 1)
        tier2 == SelectSeq(schoolsForAnalysis, LAMBDA s : s.tier = 2)
        tier3 == SelectSeq(schoolsForAnalysis, LAMBDA s : s.tier = 3)
        summary ==
            [totalSchools |-> Len(data),
             totalStudents |->
                SumSeq(MapSeq(data, LAMBDA s : OrZero(parseInt(s.students)).n)),
             lowPerformanceSchools |-> Len(tier3),
             excellentSchools |-> Len(tier1)]
    IN  [isNull |-> FALSE,
         schools |-> schoolsForAnalysis,
         summary |-> summary,
         performanceClassification |->
            [tier1 |-> tier1, tier2 |-> tier2, tier3 |-> tier3]]

\* useEffect(() => { ... setAnalysisData(performAnalysis(schoolsData)) ... })
AnalysisEffect_onMountOnly ==
    /\ pendingEffect
    /\ analysisData' = IF analysisData = NullAnalysis THEN performAnalysis(schoolsData)
                       ELSE analysisData
    /\ pendingEffect' = FALSE
    /\ UNCHANGED <<tableVars, issueStepVars>>

AnalysisEffect_tiersInPlace ==
    /\ pendingEffect
    /\ analysisData' = performAnalysis(schoolsData)
    /\ schoolsData' = analysisData'.schools
    /\ pendingEffect' = FALSE
    /\ UNCHANGED <<nextId, removedIds, issueStepVars>>

AnalysisEffect ==
    /\ pendingEffect
    /\ analysisData' = performAnalysis(schoolsData)
    /\ pendingEffect' = FALSE
    /\ UNCHANGED <<tableVars, issueStepVars>>

(***************************************************************************)
(* Step1_DataMapping: the handlers that edit the score table.  Each calls  *)
(* setSchools with a new array, so DynamicDataAnalyzer is rendered with a  *)
(* new schoolsData and its effect is scheduled again.  The table is edited *)
(* before the analysis is handed on to the issue step, and an effect runs  *)
(* before the next event is handled.                                       *)
(***************************************************************************)
TableEditable == ~pendingEffect /\ schools = <<>> /\ ~timer.set

\* setSchools(prev => [...prev, createEmptySchool(nextId)]); setNextId(prev => prev + 1)
addSchool_firstFreeRow ==
    /\ TableEditable
    /\ Len(schoolsData) < MaxTableSchools /\ nextId <= MaxTableSchools
    /\ schoolsData' = Append(schoolsData, createEmptySchool(Len(schoolsData) + 1))
    /\ nextId' = nextId + 1
    /\ pendingEffect' = TRUE
    /\ UNCHANGED <<removedIds, analysisData, issueStepVars>>

addSchool ==
    /\ TableEditable
    /\ Len(schoolsData) < MaxTableSchools /\ nextId <= MaxTableSchools
    /\ schoolsData' = Append(schoolsData, createEmptySchool(nextId))
    /\ nextId' = nextId + 1
    /\ pendingEffect' = TRUE
    /\ UNCHANGED <<removedIds, analysisData, issueStepVars>>

\* setSchools(prev => prev.filter(school => school.id !== id)), once confirmed.
removeSchool(id) ==
    /\ TableEditable
    /\ schoolsData' = SelectSeq(schoolsData, LAMBDA school : school.id # id)
    /\ removedIds' = removedIds \cup { schoolsData[i].id : i \in { j \in 1..Len(schoolsData) :
                                                                  schoolsData[j].id = id } }
    /\ pendingEffect' = TRUE
    /\ UNCHANGED <<nextId, analysisData, issueStepVars>>

\* setSchools(prev => prev.map(s => s.id === id ? { ...s, [field]: value } : s))
\* for a metric key field.
updateSchool(id, field, value) ==
    /\ TableEditable
    /\ schoolsData' = MapSeq(schoolsData, LAMBDA s :
            IF s.id = id THEN [s EXCEPT !.scores[field] = value] ELSE s)
    /\ pendingEffect' = TRUE
    /\ UNCHANGED <<nextId, removedIds, analysisData, issueStepVars>>

(***************************************************************************)
(* The issue catalog ('../constants', '../data/issuesAndGoalsData').       *)
(***************************************************************************)
issuesAndGoalsData ==
    << [id |-> "i1", title |-> "t1", principalGoal |-> "g1", category |-> "pedagogical"],
       [id |-> "i2", title |-> "t2", principalGoal |-> "g2", category |-> "organizational"],
       [id |-> "i3", title |-> "t3", principalGoal |-> "g3", category |-> "community"],
       [id |-> "i4", title |-> "t4", principalGoal |-> "g4", category |-> "strategic"],
       [id |-> "i5", title |-> "t5", principalGoal |-> "g5", category |-> "pedagogical"],
       [id |-> "i6", title |-> "t6", principalGoal |-> "g6", category |-> "community"] >>

\* Issue id -> metric keys; "i3" has no entry, "i4" has an empty one.
BOOKLET_ISSUE_TO_METRICS_MAP ==
    [k \in {"i1", "i2", "i4", "i5", "i6"} |->
        IF k = "i1" THEN <<1, 2>>
        ELSE IF k = "i2" THEN <<1>>
        ELSE IF k = "i5" THEN <<1, 2, 3, 4, 5>>
        ELSE IF k = "i6" THEN <<2>>
        ELSE <<>>]

\* Focus area -> issue ids; any other area has no entry.
BOOKLET_TO_PLAN_ISSUES_MAP ==
    [k \in {"f1", "f2", "f4", "f5"} |->
        IF k = "f1" THEN <<"i1", "i3">>
        ELSE IF k = "f2" THEN <<"i2", "i4", "i1">>
        ELSE IF k = "f4" THEN <<"i5", "i1">>
        ELSE <<"i6">>]

\* map[key] || []
OrEmpty(map, key) == IF key \in DOMAIN map THEN map[key] ELSE <<>>

(***************************************************************************)
(* IssueSelectionStep: analyzeSchoolData.                                  *)
(***************************************************************************)
\* parseInt(school[metric], 10) for each school of the set and each metric,
\* in the order of the two nested forEach loops.
metricScores(metricsForCategory, schoolSet) ==
    FlatSeq(MapSeq(schoolSet, LAMBDA school :
        MapSeq(metricsForCategory, LAMBDA metric : parseInt(Slot(school, metric)))))

calculateAverageForCategory_allSlots(categoryKey, schoolSet) ==
    LET metricsForCategory == OrEmpty(BOOKLET_ISSUE_TO_METRICS_MAP, categoryKey)
        counted == SelectSeq(metricScores(metricsForCategory, schoolSet),
                             LAMBDA score : ~isNaN(score) /\ RatGt(score, Num(0)))
        totalScore == RatSum(counted)
        scoreCount == Len(metricScores(metricsForCategory, schoolSet))
    IN  IF Len(metricsForCategory) = 0 \/ Len(schoolSet) = 0 THEN Num(0)
        ELSE IF scoreCount > 0 THEN RatDivInt(totalScore, scoreCount) ELSE Num(0)

calculateAverageForCategory(categoryKey, schoolSet) ==
    LET metricsForCategory == OrEmpty(BOOKLET_ISSUE_TO_METRICS_MAP, categoryKey)
        counted == SelectSeq(metricScores(metricsForCategory, schoolSet),
                             LAMBDA score : ~isNaN(score) /\ RatGt(score, Num(0)))
        totalScore == RatSum(counted)
        scoreCount == Len(counted)
    IN  IF Len(metricsForCategory) = 0 \/ Len(schoolSet) = 0 THEN Num(0)
        ELSE IF scoreCount > 0 THEN RatDivInt(totalScore, scoreCount) ELSE Num(0)

\* The metrics of the category on which the school is low (no score > 0 test).
affectedMetricsOf(metricsForCategory, school) ==
    SelectSeq(metricsForCategory, LAMBDA metric :
        LET score == parseInt(Slot(school, metric))
        IN  ~isNaN(score) /\ RatLe(score, Num(2)))

detailSeverity_strict(affected, total) ==
    LET percentage == DblMul(DblDivInt(affected, total), DblOfInt(100))
    IN  IF DblGt(percentage, DblOfInt(70)) THEN "critical"
        ELSE IF DblGt(percentage, DblOfInt(40)) THEN "high"
        ELSE "medium"

\* percentage = (affected / total) * 100 in binary64, against 70 and 40.
detailSeverity(affected, total) ==
    LET percentage == DblMul(DblDivInt(affected, total), DblOfInt(100))
    IN  IF ~DblGt(DblOfInt(70), percentage) THEN "critical"
        ELSE IF ~DblGt(DblOfInt(40), percentage) THEN "high"
        ELSE "medium"

buildSchoolDetails(categoryKey, schoolSet) ==
    LET metricsForCategory == OrEmpty(BOOKLET_ISSUE_TO_METRICS_MAP, categoryKey)
        detail(school) ==
            LET affectedMetricsForSchool == affectedMetricsOf(metricsForCategory, school)
            IN  [schoolId |-> school.id, schoolName |-> school.name,
                 performanceTier |-> school.tier,
                 severity |-> detailSeverity(Len(affectedMetricsForSchool),
                                             Len(metricsForCategory)),
                 affectedMetrics |-> affectedMetricsForSchool]
    IN  IF Len(metricsForCategory) = 0 THEN <<>>
        ELSE MapSeq(SelectSeq(schoolSet, LAMBDA school :
                        Len(affectedMetricsOf(metricsForCategory, school)) # 0),
                    detail)

\* The scores of one school that the counting loop accepts (set and > 0).
countedScores(metricsForCategory, school) ==
    SelectSeq(MapSeq(metricsForCategory, LAMBDA metric : parseInt(Slot(school, metric))),
              LAMBDA score : ~isNaN(score) /\ RatGt(score, Num(0)))

lowScores_upTo4(scores) == SelectSeq(scores, LAMBDA score : RatLe(score, Num(4)))

lowScores(scores) == SelectSeq(scores, LAMBDA score : RatLe(score, Num(2)))

finalScoreOf_scopeInverted(affectedSchoolsCount, schoolCount, totalLowScores, totalScoresCount) ==
    LET scopeScore == DblDivInt(schoolCount - affectedSchoolsCount, schoolCount)
        severityScore ==
            DblDivInt(totalLowScores, IF totalScoresCount = 0 THEN 1 ELSE totalScoresCount)
    IN  DblAdd(DblMul(scopeScore, DblLit(6, 10)), DblMul(severityScore, DblLit(4, 10)))

\* finalScore = (scopeScore * 0.6) + (severityScore * 0.4), in binary64.
finalScoreOf(affectedSchoolsCount, schoolCount, totalLowScores, totalScoresCount) ==
    LET scopeScore == DblDivInt(affectedSchoolsCount, schoolCount)
        severityScore ==
            DblDivInt(totalLowScores, IF totalScoresCount = 0 THEN 1 ELSE totalScoresCount)
    IN  DblAdd(DblMul(scopeScore, DblLit(6, 10)), DblMul(severityScore, DblLit(4, 10)))

issueSeverity_inclusive(finalScore) ==
    IF ~DblGt(DblLit(4, 10), finalScore) THEN "critical"
    ELSE IF ~DblGt(DblLit(25, 100), finalScore) THEN "high"
    ELSE IF ~DblGt(DblLit(1, 10), finalScore) THEN "medium"
    ELSE "low"

issueSeverity(finalScore) ==
    IF DblGt(finalScore, DblLit(4, 10)) THEN "critical"
    ELSE IF DblGt(finalScore, DblLit(25, 100)) THEN "high"
    ELSE IF DblGt(finalScore, DblLit(1, 10)) THEN "medium"
    ELSE "low"

urgencyOf(finalScore) == MathRound(DblMul(finalScore, DblOfInt(100)))

NullIssue == [isNull |-> TRUE]

\* The body of relevantIssuesData.map(...): one Issue, or null.
identifyIssue(issueData, schoolSet) ==
    LET metricsForCategory == OrEmpty(BOOKLET_ISSUE_TO_METRICS_MAP, issueData.id)
        perSchool == MapSeq(schoolSet, LAMBDA school :
                            countedScores(metricsForCategory, school))
        totalScoresCount == SumSeq(MapSeq(perSchool, Len))
        totalLowScores == SumSeq(MapSeq(perSchool, LAMBDA sc : Len(lowScores(sc))))
        affectedSchoolIds ==
            {schoolSet[i].id : i \in {j \in 1..Len(schoolSet) : Len(lowScores(perSchool[j])) > 0}}
        affectedSchoolsCount == Cardinality(affectedSchoolIds)
        finalScore == finalScoreOf(affectedSchoolsCount, Len(schoolSet),
                                   totalLowScores, totalScoresCount)
    IN  IF affectedSchoolsCount = 0 THEN NullIssue
        ELSE [isNull |-> FALSE,
              id |-> issueData.id,
              name |-> issueData.title,
              description |-> issueData.principalGoal,
              affectedSchools |-> affectedSchoolsCount,
              totalSchools |-> Len(schoolSet),
              severity |-> issueSeverity(finalScore),
              category |-> issueData.category,
              urgency |-> urgencyOf(finalScore),
              schoolDetails |-> buildSchoolDetails(issueData.id, schoolSet),
              overallAverage |-> calculateAverageForCategory(issueData.id, schoolSet),
              tier1Average |-> calculateAverageForCategory(issueData.id,
                                  SelectSeq(schoolSet, LAMBDA s : s.tier = 1)),
              tier2Average |-> calculateAverageForCategory(issueData.id,
                                  SelectSeq(schoolSet, LAMBDA s : s.tier = 2)),
              tier3Average |-> calculateAverageForCategory(issueData.id,
                                  SelectSeq(schoolSet, LAMBDA s : s.tier = 3))]

\* Array.prototype.sort((a, b) => b.urgency - a.urgency): a stable sort.
RECURSIVE InsertByUrgency(_, _)
InsertByUrgency(sorted, x) ==
    IF sorted = <<>> THEN <<x>>
    ELSE IF Head(sorted).urgency >= x.urgency
         THEN <<Head(sorted)>> \o InsertByUrgency(Tail(sorted), x)
         ELSE <<x>> \o sorted

RECURSIVE SortByUrgency(_)
SortByUrgency(s) ==
    IF s = <<>> THEN <<>>
    ELSE InsertByUrgency(SortByUrgency(SubSeq(s, 1, Len(s) - 1)), s[Len(s)])

identifiedIssues_unsorted(schoolSet, focusAreas) ==
    LET relevantIssueIds ==
            {id \in {i.id : i \in {issuesAndGoalsData[k] : k \in 1..Len(issuesAndGoalsData)}} :
                \E a \in 1..Len(focusAreas) :
                    Includes(OrEmpty(BOOKLET_TO_PLAN_ISSUES_MAP, focusAreas[a]), id)}
        relevantIssuesData ==
            SelectSeq(issuesAndGoalsData, LAMBDA issue : issue.id \in relevantIssueIds)
    IN  SelectSeq(MapSeq(relevantIssuesData,
                             LAMBDA issueData : identifyIssue(issueData, schoolSet)),
                      LAMBDA issue : issue # NullIssue)

identifiedIssues(schoolSet, focusAreas) ==
    LET relevantIssueIds ==
            {id \in {i.id : i \in {issuesAndGoalsData[k] : k \in 1..Len(issuesAndGoalsData)}} :
                \E a \in 1..Len(focusAreas) :
                    Includes(OrEmpty(BOOKLET_TO_PLAN_ISSUES_MAP, focusAreas[a]), id)}
        relevantIssuesData ==
            SelectSeq(issuesAndGoalsData, LAMBDA issue : issue.id \in relevantIssueIds)
    IN  SortByUrgency(
            SelectSeq(MapSeq(relevantIssuesData,
                             LAMBDA issueData : identifyIssue(issueData, schoolSet)),
                      LAMBDA issue : issue # NullIssue))

\* analyzeSchoolData() as closed over (schools, selectedFocusAreas): the
\* issue list afterwards.  It returns at once, leaving the list alone, when
\* there are no schools or no focus areas.
analyzeSchoolData(schoolSet, focusAreas, current) ==
    IF Len(schoolSet) = 0 \/ Len(focusAreas) = 0
    THEN current
    ELSE identifiedIssues(schoolSet, focusAreas)

NoTimer == [set |-> FALSE]

\* The effect of IssueSelectionStep for the props (sch, focus): it runs on
\* mount and when schools or analyzeSchoolData change, after the cleanup
\* of the previous run has cleared its timer.
IssueStepEffect(sch, focus, current) ==
    IF Len(sch) > 0
    THEN [isAnalyzing |-> TRUE,
          timer |-> [set |-> TRUE, schools |-> sch, focus |-> focus],
          issues |-> current]
    ELSE [isAnalyzing |-> FALSE, timer |-> NoTimer, issues |-> <<>>]

\* setTimeout: the callback of the effect, if it made one, joins the
\* scheduled ones.
setTimeout(scheduled, callback) ==
    IF callback.set THEN Append(scheduled, callback) ELSE scheduled

\* The sequence s without its element at position k.
RemoveAt(s, k) == SubSeq(s, 1, k - 1) \o SubSeq(s, k + 1, Len(s))

\* clearTimeout(timerId) in the cleanup of the effect that made the callback:
\* it is the one scheduled last; clearing one that has run does nothing.
clearTimeout(scheduled, callback) ==
    IF callback.set /\ Len(scheduled) > 0 /\ scheduled[Len(scheduled)] = callback
    THEN RemoveAt(scheduled, Len(scheduled))
    ELSE scheduled

\* The callback without its setIsAnalyzing(false).
TimerFires_keepsAnalyzing ==
    \E k \in 1..Len(timeouts) :
        /\ issues' = analyzeSchoolData(timeouts[k].schools, timeouts[k].focus, issues)
        /\ timeouts' = RemoveAt(timeouts, k)
        /\ timer' = IF timeouts[k] = timer THEN NoTimer ELSE timer
        /\ UNCHANGED <<tableVars, pendingEffect, analysisData, schools, mounted, isAnalyzing,
                       selectedFocusAreas, selectionVars, prevSchools, prevIssues>>

\* The 1500 ms of a scheduled callback are over and it runs:
\* analyzeSchoolData(); setIsAnalyzing(false), with the schools and focus
\* areas of the render that made it.
TimerFires ==
    \E k \in 1..Len(timeouts) :
        /\ issues' = analyzeSchoolData(timeouts[k].schools, timeouts[k].focus, issues)
        /\ isAnalyzing' = FALSE
        /\ timeouts' = RemoveAt(timeouts, k)
        /\ timer' = IF timeouts[k] = timer THEN NoTimer ELSE timer
        /\ UNCHANGED <<tableVars, pendingEffect, analysisData, schools, mounted,
                       selectedFocusAreas, selectionVars, prevSchools, prevIssues>>

\* The updater of handleIssueSelection: prev => ... for the clicked id.
toggleIssue_upTo4(prev, issueId) ==
    IF Includes(prev, issueId) THEN SelectSeq(prev, LAMBDA id : id # issueId)
    ELSE IF Len(prev) <= 3 THEN Append(prev, issueId)
    ELSE prev

toggleIssue(prev, issueId) ==
    IF Includes(prev, issueId) THEN SelectSeq(prev, LAMBDA id : id # issueId)
    ELSE IF Len(prev) < 3 THEN Append(prev, issueId)
    ELSE prev

NotCompleted == [called |-> FALSE]

\* The list of issues is rendered (not the spinner) and the step has not
\* been left through onComplete.
ListShown == mounted /\ ~isAnalyzing /\ ~onCompleteCall.called

\* A click on the card of a displayed issue: handleIssueSelection(issue.id).
handleIssueSelection(issueId) ==
    /\ ListShown
    /\ \E k \in 1..Len(issues) : issues[k].id = issueId
    /\ selectedIssues' = toggleIssue(selectedIssues, issueId)
    /\ UNCHANGED <<tableVars, pendingEffect, analysisData, schools, selectedFocusAreas,
                   issues, isAnalyzing, onCompleteCall, timer, timeouts, mounted,
                   prevSchools, prevIssues>>

\* disabled={issues.length > 0 && selectedIssues.length === 0}
ContinueEnabled == ~(Len(issues) > 0 /\ Len(selectedIssues) = 0)

\* A click on the enabled Continue button:
\* onComplete(issues.filter(issue => selectedIssues.includes(issue.id))).
handleContinue ==
    /\ ListShown
    /\ ContinueEnabled
    /\ onCompleteCall' = [called |-> TRUE,
                     issues |-> SelectSeq(issues, LAMBDA issue :
                                    Includes(selectedIssues, issue.id))]
    /\ UNCHANGED <<tableVars, pendingEffect, analysisData, schools, selectedFocusAreas,
                   issues, isAnalyzing, selectedIssues, timer, timeouts, mounted,
                   prevSchools, prevIssues>>

(***************************************************************************)
(* DynamicDataAnalyzer: the averages of the dashboard, the heatmap and the *)
(* report card, computed from analysisData when they are rendered.         *)
(***************************************************************************)
\* x.toFixed(2) as hundredths: the integer n for which n / 100 - x is
\* closest to zero, the larger one if there are two.
Hundredths(x0) ==
    Bind(x0, LAMBDA x :
        IF x = DblZero THEN 0
        ELSE IF x.e >= 0 THEN BigToInt(BigShl(BigMulSmall(x.m, 100), x.e))
        ELSE Bind(BigShr(BigMulSmall(x.m, 100), -x.e), LAMBDA sh :
                 BigToInt(sh.q) + (IF sh.out >= 2 THEN 1 ELSE 0)))

RECURSIVE DigitsOf(_)
DigitsOf(k) ==
    IF k < 10 THEN <<DigitChars[k + 1]>>
    ELSE DigitsOf(k \div 10) \o <<DigitChars[(k % 10) + 1]>>

\* x.toFixed(2): the decimal string with two fraction digits.
toFixed2(x) ==
    Bind(Hundredths(x), LAMBDA h :
        DigitsOf(h \div 100) \o <<".", DigitChars[((h \div 10) % 10) + 1], DigitChars[(h % 10) + 1]>>)

\* The scores of the metrics over the schools that pass !isNaN(s) && s > 0.
positiveScores(metrics, schoolSet) ==
    SelectSeq(metricScores(metrics, schoolSet),
              LAMBDA score : ~isNaN(score) /\ RatGt(score, Num(0)))

mainDomainAverages(analysis) ==
    MapSeq(HIERARCHICAL_CATEGORIES, LAMBDA mainCat :
        LET allMetrics == FlatSeq(MapSeq(mainCat.subCategories, LAMBDA sc : sc.metrics))
            allScores  == positiveScores(allMetrics, analysis.schools)
            average    == IF Len(allScores) > 0
                          THEN DblDivInt(RatSum(allScores).n, Len(allScores))
                          ELSE DblZero
        IN  [name |-> mainCat.name, value |-> parseFloat(toFixed2(average))])

\* Array.prototype.sort((a, b) => b.average - a.average): a stable sort.
RECURSIVE InsertByAverage(_, _)
InsertByAverage(sorted, x) ==
    IF sorted = <<>> THEN <<x>>
    ELSE IF RatGe(Head(sorted).average, x.average)
         THEN <<Head(sorted)>> \o InsertByAverage(Tail(sorted), x)
         ELSE <<x>> \o sorted

RECURSIVE SortByAverage(_)
SortByAverage(s) ==
    IF s = <<>> THEN <<>>
    ELSE InsertByAverage(SortByAverage(SubSeq(s, 1, Len(s) - 1)), s[Len(s)])

\* Array.prototype.slice(0, n).
Slice0(s, n) == SubSeq(s, 1, IF Len(s) < n THEN Len(s) ELSE n)

\* The sub-categories that have a score, each with its average, in
\* declaration order.
subCategoryAverages(analysis) ==
    FlatSeq(MapSeq(HIERARCHICAL_CATEGORIES, LAMBDA category :
        MapSeq(SelectSeq(category.subCategories, LAMBDA subCat :
                   Len(positiveScores(subCat.metrics, analysis.schools)) > 0),
               LAMBDA subCat :
                   [name |-> subCat.name,
                    average |->
                        RatDivInt(RatSum(positiveScores(subCat.metrics, analysis.schools)),
                                  Len(positiveScores(subCat.metrics, analysis.schools)))])))

systemicStrengths_keepsAll(analysis) == SortByAverage(subCategoryAverages(analysis))

systemicStrengths(analysis) ==
    Slice0(SortByAverage(subCategoryAverages(analysis)), 5)

\* handleExportHeatmapHTML: the average of one sub-category tile.
subCategoryAverage(subCat, schoolSet) ==
    LET subCatScores == positiveScores(subCat.metrics, schoolSet)
    IN  IF Len(subCatScores) > 0
        THEN RatDivInt(RatSum(subCatScores), Len(subCatScores))
        ELSE Num(0)

heatmapData(analysis) ==
    MapSeq(HIERARCHICAL_CATEGORIES, LAMBDA category :
        MapSeq(category.subCategories, LAMBDA subCat :
            [name |-> subCat.name,
             average |-> subCategoryAverage(subCat, analysis.schools)]))

\* schoolTableData: the rows of the school table, each with the average of
\* the scores that parseInt(..) || 0 makes positive (the binary64 quotient is
\* kept as the fraction it rounds).
schoolTableData(analysis) ==
    IF analysis = NullAnalysis THEN <<>>
    ELSE MapSeq(analysis.schools, LAMBDA school :
        LET scores == SelectSeq(MapSeq(ALL_SCORE_FIELDS, LAMBDA field :
                                    OrZero(parseInt(Slot(school, field)))),
                                LAMBDA s0 : RatGt(s0, Num(0)))
        IN  [id |-> school.id,
             schoolName |-> school.name,
             principalName |-> school.principal,
             overallAverage |-> IF Len(scores) > 0
                                THEN RatDivInt(RatSum(scores), Len(scores))
                                ELSE Num(0),
             performanceTier |-> school.tier])

\* createReportCardData: scores, overallAverage and domainAverages of one
\* school of analysisData (score strings here carry no radix prefix).
reportCardAverages_overAllSlots(school) ==
    LET scores ==
            SelectSeq(MapSeq(ALL_SCORE_FIELDS, LAMBDA field :
                          [field |-> field,
                           score |-> OrZero(parseInt(Slot(school, field)))]),
                      LAMBDA item : RatGt(item.score, Num(0)))
        mean(items) ==
            IF Len(items) > 0
            THEN RatDivInt(RatSum(MapSeq(items, LAMBDA s : s.score)), NumFields)
            ELSE Num(0)
    IN  [overallAverage |-> mean(scores),
         domainAverages |->
            MapSeq(HIERARCHICAL_CATEGORIES, LAMBDA cat :
                LET catFields == FlatSeq(MapSeq(cat.subCategories, LAMBDA sc : sc.metrics))
                IN  [name |-> cat.name,
                     average |-> mean(SelectSeq(scores, LAMBDA s :
                                          Includes(catFields, s.field)))])]


reportCardAverages(school) ==
    LET scores ==
            SelectSeq(MapSeq(ALL_SCORE_FIELDS, LAMBDA field :
                          [field |-> field,
                           score |-> OrZero(parseInt(Slot(school, field)))]),
                      LAMBDA item : RatGt(item.score, Num(0)))
        mean(items) ==
            IF Len(items) > 0
            THEN RatDivInt(RatSum(MapSeq(items, LAMBDA s : s.score)), Len(items))
            ELSE Num(0)
    IN  [overallAverage |-> mean(scores),
         domainAverages |->
            MapSeq(HIERARCHICAL_CATEGORIES, LAMBDA cat :
                LET catFields == FlatSeq(MapSeq(cat.subCategories, LAMBDA sc : sc.metrics))
                IN  [name |-> cat.name,
                     average |-> mean(SelectSeq(scores, LAMBDA s :
                                          Includes(catFields, s.field)))])]

\* The metric keys that have a challenge phrase; the others get the generic
\* phrase built from the metric's name.
METRIC_TO_CHALLENGE_MAP ==
    [metric \in {1, 2, 4} |-> <<"challenge", metric>>]

\* Array.prototype.sort((a, b) => b.score - a.score): a stable sort.
RECURSIVE InsertByScore(_, _)
InsertByScore(sorted, x) ==
    IF sorted = <<>> THEN <<x>>
    ELSE IF RatGe(Head(sorted).score, x.score)
         THEN <<Head(sorted)>> \o InsertByScore(Tail(sorted), x)
         ELSE <<x>> \o sorted

RECURSIVE SortByScore(_)
SortByScore(s) ==
    IF s = <<>> THEN <<>>
    ELSE InsertByScore(SortByScore(SubSeq(s, 1, Len(s) - 1)), s[Len(s)])

\* The metrics of the school with a score passing !isNaN(score) && score > 0,
\* in taxonomy order (a metric's name is its key here).
allMetricsWithInfo(school) ==
    FlatSeq(MapSeq(HIERARCHICAL_CATEGORIES, LAMBDA category :
        FlatSeq(MapSeq(category.subCategories, LAMBDA subCat :
            MapSeq(SelectSeq(subCat.metrics, LAMBDA metric :
                       /\ ~isNaN(parseInt(Slot(school, metric)))
                       /\ RatGt(parseInt(Slot(school, metric)), Num(0))),
                   LAMBDA metric :
                       [key |-> metric, subCategory |-> subCat.name, name |-> metric,
                        score |-> parseInt(Slot(school, metric))])))))

reportCardStrengths_from3(school) ==
    MapSeq(Slice0(SortByScore(SelectSeq(allMetricsWithInfo(school), LAMBDA item :
                                  RatGe(item.score, Num(3)))),
                  6),
           LAMBDA item : [subCategory |-> item.subCategory, name |-> item.name])

\* strengths: filter(score >= 3.2).sort(b.score - a.score).slice(0, 6); the
\* entry `${subCategory}: ${name}` is kept as the pair it is made of.
reportCardStrengths(school) ==
    MapSeq(Slice0(SortByScore(SelectSeq(allMetricsWithInfo(school), LAMBDA item :
                                  RatGe(item.score, Rat(32, 10)))),
                  6),
           LAMBDA item : [subCategory |-> item.subCategory, name |-> item.name])

reportCardChallenges_noDampening(school) ==
    FlatSeq(MapSeq(HIERARCHICAL_CATEGORIES, LAMBDA category :
        FlatSeq(MapSeq(category.subCategories, LAMBDA subCat :
            LET subCatMetricsWithScores ==
                    SelectSeq(MapSeq(subCat.metrics, LAMBDA m0 :
                                  [metric |-> m0, score |-> parseInt(Slot(school, m0))]),
                              LAMBDA item : ~isNaN(item.score) /\ RatGt(item.score, Num(0)))
            IN  IF Len(subCatMetricsWithScores) = 0 THEN <<>>
                ELSE MapSeq(SelectSeq(subCatMetricsWithScores, LAMBDA item :
                                RatLe(item.score, Num(3))),
                            LAMBDA item :
                                [subCategory |-> subCat.name,
                                 text |-> IF item.metric \in DOMAIN METRIC_TO_CHALLENGE_MAP
                                          THEN METRIC_TO_CHALLENGE_MAP[item.metric]
                                          ELSE <<"generic", item.metric>>])))))

\* challenges: per sub-category with a scored metric and an average < 3.5,
\* one entry per scored metric with score <= 3.
reportCardChallenges(school) ==
    FlatSeq(MapSeq(HIERARCHICAL_CATEGORIES, LAMBDA category :
        FlatSeq(MapSeq(category.subCategories, LAMBDA subCat :
            LET subCatMetricsWithScores ==
                    SelectSeq(MapSeq(subCat.metrics, LAMBDA m0 :
                                  [metric |-> m0, score |-> parseInt(Slot(school, m0))]),
                              LAMBDA item : ~isNaN(item.score) /\ RatGt(item.score, Num(0)))
                subCatAvg ==
                    RatDivInt(RatSum(MapSeq(subCatMetricsWithScores, LAMBDA item : item.score)),
                              Len(subCatMetricsWithScores))
            IN  IF Len(subCatMetricsWithScores) = 0 THEN <<>>
                ELSE IF RatLt(subCatAvg, Rat(35, 10))
                THEN MapSeq(SelectSeq(subCatMetricsWithScores, LAMBDA item :
                                RatLe(item.score, Num(3))),
                            LAMBDA item :
                                [subCategory |-> subCat.name,
                                 text |-> IF item.metric \in DOMAIN METRIC_TO_CHALLENGE_MAP
                                          THEN METRIC_TO_CHALLENGE_MAP[item.metric]
                                          ELSE <<"generic", item.metric>>])
                ELSE <<>>))))

NullReportCard == [school |-> 0]

\* createReportCardData(schoolId): null without an analysis or without a
\* school of that id.
createReportCardData(analysis, schoolId) ==
    IF analysis = NullAnalysis THEN NullReportCard
    ELSE LET found == SelectSeq(analysis.schools, LAMBDA s0 : s0.id = schoolId)
         IN  IF found = <<>> THEN NullReportCard
             ELSE LET school == found[1]
                  IN  Bind(reportCardAverages(school), LAMBDA averages :
                      [school          |-> school,
                       studentCount    |-> OrZero(parseInt(school.students)).n,
                       overallAverage  |-> averages.overallAverage,
                       performanceTier |-> school.tier,
                       domainAverages  |-> averages.domainAverages,
                       strengths       |-> reportCardStrengths(school),
                       challenges      |-> reportCardChallenges(school)])

\* The "continue" button: onAnalysisComplete(analysisData), upon which the
\* issue step is mounted with the analysed schools and its effect runs.
AnalysisComplete(focus) ==
    LET eff == IssueStepEffect(analysisData.schools, focus, <<>>)
    IN  /\ analysisData # NullAnalysis /\ ~pendingEffect
        /\ schools = <<>> /\ selectedFocusAreas = <<>> /\ ~timer.set
        /\ schools' = analysisData.schools
        /\ selectedFocusAreas' = focus
        /\ issues' = eff.issues
        /\ isAnalyzing' = eff.isAnalyzing
        /\ timer' = eff.timer
        /\ timeouts' = setTimeout(timeouts, eff.timer)
        /\ mounted' = TRUE
        /\ UNCHANGED <<tableVars, pendingEffect, analysisData, selectionVars,
                       prevSchools, prevIssues>>

\* The parent re-renders IssueSelectionStep with new props: the cleanup of
\* the previous effect clears its timer and the effect runs again.  The
\* history keeps the table and the issues of an analysis that had completed.
PropsChange_noCleanup(sch, focus) ==
    LET eff == IssueStepEffect(sch, focus, issues)
        completed == ~timer.set /\ Len(schools) > 0 /\ Len(selectedFocusAreas) > 0
    IN  /\ mounted
        /\ schools' = sch
        /\ selectedFocusAreas' = focus
        /\ issues' = eff.issues
        /\ isAnalyzing' = eff.isAnalyzing
        /\ timer' = eff.timer
        /\ timeouts' = setTimeout(timeouts, eff.timer)
        /\ prevSchools' = IF completed THEN schools ELSE <<>>
        /\ prevIssues' = IF completed THEN issues ELSE <<>>
        /\ UNCHANGED <<tableVars, pendingEffect, analysisData, selectionVars, mounted>>

PropsChange(sch, focus) ==
    LET eff == IssueStepEffect(sch, focus, issues)
        completed == ~timer.set /\ Len(schools) > 0 /\ Len(selectedFocusAreas) > 0
    IN  /\ mounted
        /\ schools' = sch
        /\ selectedFocusAreas' = focus
        /\ issues' = eff.issues
        /\ isAnalyzing' = eff.isAnalyzing
        /\ timer' = eff.timer
        /\ timeouts' = setTimeout(clearTimeout(timeouts, timer), eff.timer)
        /\ prevSchools' = IF completed THEN schools ELSE <<>>
        /\ prevIssues' = IF completed THEN issues ELSE <<>>
        /\ UNCHANGED <<tableVars, pendingEffect, analysisData, selectionVars, mounted>>

\* The parent takes IssueSelectionStep off the screen: the cleanup of its
\* effect clears the timer.
Unmount ==
    /\ mounted
    /\ mounted' = FALSE
    /\ timeouts' = clearTimeout(timeouts, timer)
    /\ timer' = NoTimer
    /\ UNCHANGED <<tableVars, pendingEffect, analysisData, schools, selectedFocusAreas,
                   issues, isAnalyzing, selectionVars, prevSchools, prevIssues>>

(***************************************************************************)
(* Specification of the tiering engine: one row of the score table, its    *)
(* slots drawn from TierSlotValues, then the analysis effect.              *)
(***************************************************************************)
\* Step1_DataMapping and DynamicDataAnalyzer are mounted with the table:
\* useState(schools.length > 0 ? Math.max(...ids) + 1 : 1), useState(null),
\* and the effect of the first render is scheduled.
AnalyzerMounted ==
    /\ nextId = (IF Len(schoolsData) > 0
                 THEN (CHOOSE k \in { schoolsData[i].id : i \in 1..Len(schoolsData) } :
                          \A i \in 1..Len(schoolsData) : schoolsData[i].id <= k) + 1
                 ELSE 1)
    /\ removedIds = {}
    /\ analysisData = NullAnalysis
    /\ pendingEffect = TRUE

\* The issue step is studied by itself, without a score table.
AnalyzerUnused ==
    /\ schoolsData = <<>>
    /\ nextId = 1
    /\ removedIds = {}
    /\ analysisData = NullAnalysis
    /\ pendingEffect = FALSE

\* The issue step is not mounted.
IssueStepUnused ==
    /\ schools = <<>>
    /\ selectedFocusAreas = <<>>
    /\ issues = <<>>
    /\ isAnalyzing = FALSE
    /\ timer = NoTimer
    /\ timeouts = <<>>
    /\ mounted = FALSE
    /\ selectedIssues = <<>>
    /\ onCompleteCall = NotCompleted
    /\ prevSchools = <<>>
    /\ prevIssues = <<>>

TierSlotValues ==
    { <<>>, <<"1", ".", "5">>, <<"2">>, <<"4">> }

InitTier ==
    /\ \E sc \in [1..NumFields -> TierSlotValues] :
          schoolsData = << [createEmptySchool(1) EXCEPT !.scores = sc] >>
    /\ AnalyzerMounted
    /\ IssueStepUnused

NextTier == AnalysisEffect

SpecTier == InitTier /\ [][NextTier]_vars

(***************************************************************************)
(* Specification of the issue engine: the issue step is mounted with a     *)
(* table of MaxIssueSchools tiered schools and some focus areas; the timer *)
(* fires and the issues are identified.                                    *)
(***************************************************************************)
\* A row whose first slot is a and whose other slots are c.
RowOf(id, a, c) ==
    [createEmptySchool(id) EXCEPT
        !.scores = [f \in 1..NumFields |-> IF f = 1 THEN a ELSE c]]

\* The rows of the given kinds <<first slot, other slots>>, ids 1..n.
RowsOf(kinds) == [i \in 1..Len(kinds) |-> RowOf(i, kinds[i][1], kinds[i][2])]

TableOf(kinds) == MapSeq(RowsOf(kinds), SchoolForAnalysis)

\* Unset, zero on metric 1, low on metric 1 only, low everywhere, high everywhere.
IssueRowKinds ==
    << <<<<>>, <<>>>>, <<<<"0">>, <<"4">>>>, <<<<"2">>, <<"4">>>>,
       <<<<"1">>, <<"1">>>>, <<<<"4">>, <<"4">>>> >>

RECURSIVE KindsOf(_, _)
\* count[1] rows of kind 1, then count[2] rows of kind 2, ...
KindsOf(kinds, count) ==
    IF Len(kinds) = 0 THEN <<>>
    ELSE KindsOf(SubSeq(kinds, 1, Len(kinds) - 1), count)
         \o [i \in 1..count[Len(kinds)] |-> kinds[Len(kinds)]]

\* How many rows of each kind, for min..max rows in all.
KindCounts(kinds, min, max) ==
    { c \in [1..Len(kinds) -> 0..max] : SumSeq(c) \in min..max }

\* The tables of 1..max tiered schools with rows of the given kinds.
TablesOf(kinds, max) ==
    { TableOf(KindsOf(kinds, count)) : count \in KindCounts(kinds, 1, max) }

\* The tables of 0..max rows as entered in the mapping step.
RowTablesOf(kinds, max) ==
    { RowsOf(KindsOf(kinds, count)) : count \in KindCounts(kinds, 0, max) }

IssueFocusAreas == { <<>>, <<"f1">>, <<"f2", "f3">> }

\* The state of the issue step once its mount effect has run.
IssueStepMounted(sch, focus) ==
    LET eff == IssueStepEffect(sch, focus, <<>>)
    IN  /\ schools = sch
        /\ selectedFocusAreas = focus
        /\ issues = eff.issues
        /\ isAnalyzing = eff.isAnalyzing
        /\ timer = eff.timer
        /\ timeouts = setTimeout(<<>>, eff.timer)
        /\ mounted = TRUE
        /\ selectedIssues = <<>>
        /\ onCompleteCall = NotCompleted
        /\ prevSchools = <<>>
        /\ prevIssues = <<>>

InitIssues ==
    /\ AnalyzerUnused
    /\ \E sch \in TablesOf(IssueRowKinds, MaxIssueSchools) :
       \E focus \in IssueFocusAreas :
          IssueStepMounted(sch, focus)

NextIssues == TimerFires

SpecIssues == InitIssues /\ [][NextIssues]_vars


(***************************************************************************)
(* Tiering claims (C1 - C4), stated over the score slots themselves.       *)
(***************************************************************************)
\* The value of a slot as a score: its numeric reading, or "unset".
SlotScore(row, f) == parseFloat(Slot(row, f))

\* One pass over the slots f..NumFields of a row: the number of set, positive
\* scores (cnt), their sum (sum) and how many of them are <= 1.5 (crit).
RECURSIVE RowStats(_, _)
RowStats(row, f) ==
    IF f > NumFields THEN [cnt |-> 0, sum |-> Num(0), crit |-> 0]
    ELSE LET v    == SlotScore(row, f)
             rest == RowStats(row, f + 1)
         IN  IF v.nan \/ v.n <= 0 THEN rest
             ELSE [cnt  |-> rest.cnt + 1,
                   sum  |-> RatAdd(v, rest.sum),
                   crit |-> rest.crit + (IF v.n * 10 <= 15 * v.d THEN 1 ELSE 0)]

\* sign of (mean - n/d) for a row with statistics st, by cross-multiplication.
MeanCmp(st, n, d) == st.sum.n * d - n * st.cnt * st.sum.d

Analysed == analysisData # NullAnalysis

TierOf(i) == analysisData.schools[i].tier

\* C1: a school with fewer than 5 set, positive scores is tier 2, whatever
\* the values of those scores.
C1_FewScoresTier2 ==
    Analysed =>
        \A i \in 1..Len(schoolsData) :
            RowStats(schoolsData[i], 1).cnt < 5 => TierOf(i) = 2

\* C1 witness: four positive scores, all of them 1.5, and the tier is 2.
C1_Witness ==
    /\ Analysed
    /\ RowStats(schoolsData[1], 1).cnt = 4
    /\ \A f \in 1..NumFields : Slot(schoolsData[1], f) \in {<<>>, <<"1", ".", "5">>}
    /\ TierOf(1) = 2

\* C2: at least 5 positive scores and mean strictly below 2.2 give tier 3,
\* however many scores are <= 1.5 (also none).
C2_LowMeanTier3 ==
    Analysed =>
        \A i \in 1..Len(schoolsData) :
            LET st == RowStats(schoolsData[i], 1)
            IN  (st.cnt >= 5 /\ MeanCmp(st, 22, 10) < 0) => TierOf(i) = 3

\* C2 witness: mean below 2.2 with no score <= 1.5, tier 3.
C2_Witness ==
    /\ Analysed
    /\ LET st == RowStats(schoolsData[1], 1)
       IN  st.cnt >= 5 /\ MeanCmp(st, 22, 10) < 0 /\ st.crit = 0
    /\ TierOf(1) = 3

\* C3: with at least 5 positive scores and mean >= 2.2, the tier is 1 exactly
\* when mean > 3.2 and fewer than 2 scores are <= 1.5, and 2 otherwise; a
\* mean of exactly 3.2 is tier 2.
C3_HighMeanTier ==
    Analysed =>
        \A i \in 1..Len(schoolsData) :
            LET st == RowStats(schoolsData[i], 1)
            IN  (st.cnt >= 5 /\ MeanCmp(st, 22, 10) >= 0) =>
                    /\ TierOf(i) \in {1, 2}
                    /\ TierOf(i) = 1 <=> (MeanCmp(st, 32, 10) > 0 /\ st.crit < 2)
                    /\ MeanCmp(st, 32, 10) <= 0 => TierOf(i) = 2

\* C3 witness: a mean of exactly 3.2 over at least 5 scores, tier 2.
C3_Witness ==
    /\ Analysed
    /\ LET st == RowStats(schoolsData[1], 1)
       IN  st.cnt >= 5 /\ MeanCmp(st, 32, 10) = 0
    /\ TierOf(1) = 2

\* Rows that agree with a row on every score slot and differ elsewhere.
AdminVariants(row) ==
    { [row EXCEPT !.students = <<"4">>],
      [row EXCEPT !.id = 2, !.name = <<"4">>, !.principal = <<"p">>,
                  !.students = <<"1", "2", "0">>,
                  !.supportLevel = <<"f">>, !.notes = <<"3">>] }

\* C4: the tier is a function of the score slots only (rows that agree on
\* every slot get the same tier) and is always 1, 2 or 3.
C4_TierTotalDeterministic ==
    Analysed =>
        \A i \in 1..Len(schoolsData) :
            /\ TierOf(i) \in {1, 2, 3}
            /\ \A other \in AdminVariants(schoolsData[i]) :
                  getTier(other) = TierOf(i)

\* C4 witness: the row with every slot empty has a tier, shared by the rows
\* that differ from it in the administrative fields.
C4_Witness ==
    /\ Analysed
    /\ \A f \in 1..NumFields : Slot(schoolsData[1], f) = <<>>
    /\ TierOf(1) = 2
    /\ \E other \in AdminVariants(schoolsData[1]) : other # schoolsData[1]


(***************************************************************************)
(* Specification of two successive analyses: the step is mounted with one  *)
(* table, the parent hands it another, and the timer fires after each.     *)
(***************************************************************************)
\* Unset, low on metric 1 only, low everywhere, high everywhere.
MonoRowKinds ==
    << <<<<>>, <<>>>>, <<<<"2">>, <<"4">>>>, <<<<"1">>, <<"1">>>>, <<<<"4">>, <<"4">>>> >>

MonoFocusAreas == { <<"f2">> }

InitMono ==
    /\ AnalyzerUnused
    /\ \E sch \in TablesOf(MonoRowKinds, MaxMonoSchools) :
       \E focus \in MonoFocusAreas :
          IssueStepMounted(sch, focus)

NextMono ==
    \/ TimerFires
    \/ \E sch \in TablesOf(MonoRowKinds, MaxMonoSchools) :
       \E focus \in MonoFocusAreas :
          PropsChange(sch, focus)

SpecMono == InitMono /\ [][NextMono]_vars

(***************************************************************************)
(* Specification of the averages: a table of up to MaxAvgSchools rows is   *)
(* analysed, handed to the issue step, and the issues are identified.      *)
(***************************************************************************)
\* Unset, zero on metric 1, low on metric 1 only, 9 on metric 1, low everywhere.
AvgRowKinds ==
    << <<<<>>, <<>>>>, <<<<"0">>, <<"4">>>>, <<<<"2">>, <<"4">>>>,
       <<<<"9">>, <<"3">>>>, <<<<"1">>, <<"1">>>> >>

AvgFocusAreas == { <<"f1">>, <<"f2">> }

InitAvg ==
    /\ schoolsData \in RowTablesOf(AvgRowKinds, MaxAvgSchools)
    /\ AnalyzerMounted
    /\ IssueStepUnused

NextAvg ==
    \/ AnalysisEffect
    \/ \E focus \in AvgFocusAreas : AnalysisComplete(focus)
    \/ TimerFires

SpecAvg == InitAvg /\ [][NextAvg]_vars

(***************************************************************************)
(* Specification of the per-school detail: the issue step is mounted with  *)
(* one school whose slots on the five metrics of i5 are drawn freely, the   *)
(* other slots sharing one value, and the timer fires.                     *)
(***************************************************************************)
DetailSlotValues == { <<>>, <<"0">>, <<"2">>, <<"4">> }

DetailFocusAreas == { <<"f4">>, <<"f2">> }

InitDetails ==
    /\ AnalyzerUnused
    /\ \E sc \in [1..Len(BOOKLET_ISSUE_TO_METRICS_MAP["i5"]) -> DetailSlotValues] :
       \E rest \in DetailSlotValues :
       \E focus \in DetailFocusAreas :
          IssueStepMounted(
              << SchoolForAnalysis([createEmptySchool(1) EXCEPT !.scores =
                    [f \in 1..NumFields |-> IF f \in DOMAIN sc THEN sc[f] ELSE rest]]) >>,
              focus)

NextDetails == TimerFires

SpecDetails == InitDetails /\ [][NextDetails]_vars

(***************************************************************************)
(* Specification of the dashboard and the report card: one row of the      *)
(* score table, its slots drawn from CardSlotValues, then the analysis     *)
(* effect; the strengths and the report card are computed from its result. *)
(***************************************************************************)
CardSlotValues == { <<>>, <<"3">>, <<"4">> }

InitCard ==
    /\ \E sc \in [1..NumFields -> CardSlotValues] :
          \/ schoolsData = << [createEmptySchool(1) EXCEPT !.scores = sc] >>
          \/ schoolsData = << RowOf(1, <<"4">>, <<"3">>),
                              [createEmptySchool(2) EXCEPT !.scores = sc] >>
    /\ AnalyzerMounted
    /\ IssueStepUnused

NextCard == AnalysisEffect

SpecCard == InitCard /\ [][NextCard]_vars

(***************************************************************************)
(* Specification of the summary: a table of up to MaxSummarySchools rows,  *)
(* each of some tier and with some student count, then the analysis effect.*)
(***************************************************************************)
\* <<first slot, other slots, students>>: unset, low or high scores with
\* no, 120 or 7 students.
SummaryRowKinds ==
    { <<sc[1], sc[2], st>> :
        sc \in { <<<<>>, <<>>>>, <<<<"1">>, <<"1">>>>, <<<<"4">>, <<"4">>>> },
        st \in { <<>>, <<"1", "2", "0">>, <<"7">> } }

SummaryTables ==
    UNION { { [i \in 1..n |->
                 [RowOf(i, kinds[i][1], kinds[i][2]) EXCEPT !.students = kinds[i][3]]] :
              kinds \in [1..n -> SummaryRowKinds] } :
            n \in 0..MaxSummarySchools }

InitSummary ==
    /\ schoolsData \in SummaryTables
    /\ AnalyzerMounted
    /\ IssueStepUnused

NextSummary == AnalysisEffect

SpecSummary == InitSummary /\ [][NextSummary]_vars

(***************************************************************************)
(* Specification of the edited table: a table of up to MaxTableSchools     *)
(* rows is edited with the handlers of step 1 and analysed after each      *)
(* change; the result is handed to the issue step, which identifies the    *)
(* issues and is rendered again with the same schools.                     *)
(***************************************************************************)
\* The score every slot of an initial row holds: a row of tier 3 or of tier 1.
TableRowBases == { <<"2">>, <<"4">> }

EditedFields == {1}

EditedValues == { <<>>, <<"2">>, <<"4">> }

TableFocusAreas == { <<"f2">> }

InitTable ==
    /\ \E n \in 0..MaxTableSchools : \E base \in [1..n -> TableRowBases] :
          schoolsData = [i \in 1..n |-> RowOf(i, base[i], base[i])]
    /\ AnalyzerMounted
    /\ IssueStepUnused

NextTable ==
    \/ addSchool
    \/ \E id \in 1..MaxTableSchools : removeSchool(id)
    \/ \E id \in 1..MaxTableSchools : \E field \in EditedFields : \E value \in EditedValues :
          updateSchool(id, field, value)
    \/ AnalysisEffect
    \/ \E focus \in TableFocusAreas : AnalysisComplete(focus)
    \/ TimerFires
    \/ \E focus \in TableFocusAreas : Len(schools) > 0 /\ PropsChange(schools, focus)

SpecTable == InitTable /\ [][NextTable]_vars

(***************************************************************************)
(* Specification of the re-rendered issue step: it is mounted with some    *)
(* schools and focus areas and rendered again with other ones, the timer   *)
(* firing or being replaced in between.                                    *)
(***************************************************************************)
\* Low on metric 1 only, high everywhere.
StaleRowKinds == << <<<<"2">>, <<"4">>>>, <<<<"4">>, <<"4">>>> >>

StaleTables == {<<>>} \cup TablesOf(StaleRowKinds, MaxStaleSchools)

StaleFocusAreas == { <<>>, <<"f1">> }

InitStale ==
    /\ AnalyzerUnused
    /\ \E sch \in StaleTables : \E focus \in StaleFocusAreas :
          IssueStepMounted(sch, focus)

NextStale ==
    \/ TimerFires
    \/ \E sch \in StaleTables : \E focus \in StaleFocusAreas :
          PropsChange(sch, focus)

SpecStale == InitStale /\ [][NextStale]_vars

(***************************************************************************)
(* Specification of the ranking: the issue step is mounted with a table of *)
(* up to MaxRankSchools schools and focus areas that bring in issues with  *)
(* different metric sets; the timer fires and the issues are ranked.       *)
(***************************************************************************)
\* Low on every metric but the first (unset), low on the first only (the
\* others unset), high everywhere.
RankRowKinds ==
    << <<<<>>, <<"2">>>>, <<<<"2">>, <<>>>>, <<<<"4">>, <<"4">>>> >>

RankFocusAreas == { <<"f4">>, <<"f2", "f4">> }

InitRank ==
    /\ AnalyzerUnused
    /\ \E sch \in TablesOf(RankRowKinds, MaxRankSchools) :
       \E focus \in RankFocusAreas :
          IssueStepMounted(sch, focus)

NextRank == TimerFires

SpecRank == InitRank /\ [][NextRank]_vars

(***************************************************************************)
(* Specification of the selection: the issue step is mounted with a table  *)
(* of schools and three focus areas, the timer fires, and the cards of the *)
(* displayed issues are clicked.                                           *)
(***************************************************************************)
\* Low everywhere, low on metric 1 only.
SelectRowKinds == << <<<<"1">>, <<"1">>>>, <<<<"2">>, <<"4">>>> >>

SelectFocusAreas == { <<"f2", "f4", "f5">> }

InitSelect ==
    /\ AnalyzerUnused
    /\ \E sch \in TablesOf(SelectRowKinds, MaxSelectSchools) :
       \E focus \in SelectFocusAreas :
          IssueStepMounted(sch, focus)

NextSelect ==
    \/ TimerFires
    \/ \E k \in 1..Len(issues) : handleIssueSelection(issues[k].id)

SpecSelect == InitSelect /\ [][NextSelect]_vars

(***************************************************************************)
(* Specification of the whole issue step: it is mounted, rendered again    *)
(* with other schools while it holds a selection, cards are clicked and    *)
(* the step is left through the Continue button.                           *)
(***************************************************************************)
ContinueTables == TablesOf(SelectRowKinds, MaxSelectSchools)

InitContinue ==
    /\ AnalyzerUnused
    /\ \E sch \in ContinueTables : \E focus \in SelectFocusAreas :
          IssueStepMounted(sch, focus)

NextContinue ==
    \/ TimerFires
    \/ \E sch \in ContinueTables : \E focus \in SelectFocusAreas :
          ~onCompleteCall.called /\ PropsChange(sch, focus)
    \/ \E k \in 1..Len(issues) : handleIssueSelection(issues[k].id)
    \/ handleContinue

SpecContinue == InitContinue /\ [][NextContinue]_vars

(***************************************************************************)
(* Specification of the timer: the issue step is mounted, rendered again   *)
(* with other schools or focus areas before or after its timer has fired,  *)
(* and taken off the screen.                                               *)
(***************************************************************************)
TimerFocusAreas == { <<"f1">>, <<"f2">> }

InitTimer ==
    /\ AnalyzerUnused
    /\ \E sch \in StaleTables : \E focus \in TimerFocusAreas :
          IssueStepMounted(sch, focus)

NextTimer ==
    \/ TimerFires
    \/ \E sch \in StaleTables : \E focus \in TimerFocusAreas :
          PropsChange(sch, focus)
    \/ Unmount

SpecTimer == InitTimer /\ [][NextTimer]_vars

(***************************************************************************)
(* Specification of the mounted issue step under fairness: its schools or  *)
(* focus areas change any number of times, and a timer that stays          *)
(* scheduled fires (the browser runs a timeout that is not cleared).       *)
(***************************************************************************)
\* The timeouts the effect can schedule.
LiveTimers ==
    { [set |-> TRUE, schools |-> sch, focus |-> focus] :
          sch \in StaleTables \ {<<>>}, focus \in TimerFocusAreas }

\* The scheduled timeout t runs: the step that TimerFires takes for t, by
\* the variables that tell it apart from every other step.
TimerRuns(t) ==
    /\ timeouts = <<t>>
    /\ timeouts' = <<>>
    /\ UNCHANGED <<schools, selectedFocusAreas>>

NextLive ==
    \/ TimerFires
    \/ \E sch \in StaleTables : \E focus \in TimerFocusAreas :
          /\ <<sch, focus>> # <<schools, selectedFocusAreas>>
          /\ PropsChange(sch, focus)

SpecLive ==
    /\ InitTimer
    /\ [][NextLive]_vars
    /\ \A t \in LiveTimers : WF_timeouts(TimerRuns(t))

(***************************************************************************)
(* Issue identification: claims C7, C8, C10, checked under SpecIssues.     *)
(* The counts are taken from the table cell by cell, independently of the  *)
(* loops of analyzeSchoolData.                                             *)
(***************************************************************************)
\* The ids of the catalog.
IssueIds == { issuesAndGoalsData[k].id : k \in 1..Len(issuesAndGoalsData) }

MetricsOfIssue(id) ==
    IF id \in DOMAIN BOOKLET_ISSUE_TO_METRICS_MAP
    THEN BOOKLET_ISSUE_TO_METRICS_MAP[id] ELSE <<>>

\* The cells <<school, metric position>> of the issue holding a set, positive score.
SetCells(id, sch) ==
    { c \in (1..Len(sch)) \X (1..Len(MetricsOfIssue(id))) :
        LET v == parseInt(Slot(sch[c[1]], MetricsOfIssue(id)[c[2]]))
        IN  ~v.nan /\ v.n > 0 }

\* Those of them holding a score <= 2.
LowCells(id, sch) ==
    { c \in SetCells(id, sch) :
        LET v == parseInt(Slot(sch[c[1]], MetricsOfIssue(id)[c[2]]))
        IN  v.n <= 2 * v.d }

AffectedSchools(id, sch) == { c[1] : c \in LowCells(id, sch) }

\* The issue definitions of the selected focus areas.
RelevantIds ==
    { id \in IssueIds :
        \E a \in 1..Len(selectedFocusAreas) :
            /\ selectedFocusAreas[a] \in DOMAIN BOOKLET_TO_PLAN_ISSUES_MAP
            /\ \E k \in 1..Len(BOOKLET_TO_PLAN_ISSUES_MAP[selectedFocusAreas[a]]) :
                  BOOKLET_TO_PLAN_ISSUES_MAP[selectedFocusAreas[a]][k] = id }

ResultIds == { issues[k].id : k \in 1..Len(issues) }

\* The analysis of the current props has run.
Identified == ~timer.set /\ ~isAnalyzing /\ Len(schools) > 0

\* C7: an issue definition of the selected focus areas appears in the result
\* if and only if some school has a set, positive score <= 2 on one of the
\* issue's metrics; an issue with an empty or unmapped metric set, or with no
\* affected school, never appears, and nothing else appears.
C7_IssueIffAffected ==
    Identified =>
        \A id \in IssueIds :
            (id \in ResultIds) <=> (id \in RelevantIds /\ AffectedSchools(id, schools) # {})

\* The focus areas bring in i1, i2 and the empty-metric i4; a school holds
\* "0" on metric 1; i1 is returned and i4 is dropped.
C7_Witness ==
    /\ Identified
    /\ {"i1", "i2", "i4"} \subseteq RelevantIds
    /\ "i1" \in ResultIds
    /\ "i4" \notin ResultIds
    /\ \E i \in 1..Len(schools) : Slot(schools[i], 1) = <<"0">>

\* round(100 * (0.6 * a / n + 0.4 * L / max(T, 1))) over the rationals, halves up.
ExactUrgency(id, sch) ==
    LET a == Cardinality(AffectedSchools(id, sch))
        n == Len(sch)
        L == Cardinality(LowCells(id, sch))
        T == IF Cardinality(SetCells(id, sch)) = 0 THEN 1 ELSE Cardinality(SetCells(id, sch))
    IN  (2 * (60 * a * T + 40 * L * n) + n * T) \div (2 * n * T)

\* C8: for every returned issue, urgency = round(100 * (0.6 *
\* affectedSchoolsCount / totalSchoolCount + 0.4 * totalLowScores /
\* max(totalScoresCount, 1))).
C8_UrgencyIsRoundedFormula ==
    Identified =>
        \A k \in 1..Len(issues) :
            issues[k].urgency = ExactUrgency(issues[k].id, schools)

\* The urgency fraction f over the rationals, as numerator and denominator.
ExactFraction(id, sch) ==
    LET a == Cardinality(AffectedSchools(id, sch))
        n == Len(sch)
        L == Cardinality(LowCells(id, sch))
        T == IF Cardinality(SetCells(id, sch)) = 0 THEN 1 ELSE Cardinality(SetCells(id, sch))
    IN  [n |-> 6 * a * T + 4 * L * n, d |-> 10 * n * T]

ExactBucket(f) ==
    IF 10 * f.n > 4 * f.d THEN "critical"
    ELSE IF 100 * f.n > 25 * f.d THEN "high"
    ELSE IF 10 * f.n > 1 * f.d THEN "medium"
    ELSE "low"

\* C10: the severity bucket of every returned issue follows the unrounded
\* urgency fraction f with strict lower bounds: critical iff f > 0.4, high
\* iff 0.25 < f <= 0.4, medium iff 0.1 < f <= 0.25, low iff f <= 0.1.
C10_SeverityStrictThresholds ==
    Identified =>
        \A k \in 1..Len(issues) :
            issues[k].severity = ExactBucket(ExactFraction(issues[k].id, schools))

\* An issue whose fraction is exactly 0.1 is returned as "low".
C10_Witness ==
    /\ Identified
    /\ \E k \in 1..Len(issues) :
          LET f == ExactFraction(issues[k].id, schools)
          IN  10 * f.n = f.d /\ issues[k].severity = "low"

\* An issue whose fraction is exactly 0.4 is returned as "high".
C10_WitnessHigh ==
    /\ Identified
    /\ \E k \in 1..Len(issues) :
          LET f == ExactFraction(issues[k].id, schools)
          IN  10 * f.n = 4 * f.d /\ issues[k].severity = "high"

\* An issue whose fraction is exactly 0.25 is returned as "medium".
C10_WitnessMedium ==
    /\ Identified
    /\ \E k \in 1..Len(issues) :
          LET f == ExactFraction(issues[k].id, schools)
          IN  100 * f.n = 25 * f.d /\ issues[k].severity = "medium"


(***************************************************************************)
(* Urgency against scope and severity: claim C9, checked under SpecMono.   *)
(***************************************************************************)
\* scopeScore, over the rationals.
ExactScope(id, sch) ==
    [n |-> Cardinality(AffectedSchools(id, sch)), d |-> Len(sch)]

\* severityScore, over the rationals.
ExactSeverity(id, sch) ==
    [n |-> Cardinality(LowCells(id, sch)),
     d |-> IF Cardinality(SetCells(id, sch)) = 0 THEN 1 ELSE Cardinality(SetCells(id, sch))]

FracEq(x, y) == x.n * y.d = y.n * x.d
FracLe(x, y) == x.n * y.d <= y.n * x.d

UrgencyIn(list, id) ==
    LET k == CHOOSE j \in 1..Len(list) : list[j].id = id IN list[k].urgency

\* The issues returned both for prevSchools and for schools.
IssuesOfBoth ==
    { id \in ResultIds : \E j \in 1..Len(prevIssues) : prevIssues[j].id = id }

\* C9: for two tables giving the same issue equal values in one of scopeScore
\* and severityScore and a larger-or-equal value in the other, the urgency
\* computed for the second table is >= that computed for the first.
C9_UrgencyMonotone ==
    (Identified /\ Len(prevSchools) > 0) =>
        \A id \in IssuesOfBoth :
            LET s1 == ExactScope(id, prevSchools)
                s2 == ExactScope(id, schools)
                v1 == ExactSeverity(id, prevSchools)
                v2 == ExactSeverity(id, schools)
            IN  /\ (FracEq(s1, s2) /\ FracLe(v1, v2))
                        => UrgencyIn(issues, id) >= UrgencyIn(prevIssues, id)
                /\ (FracEq(v1, v2) /\ FracLe(s1, s2))
                        => UrgencyIn(issues, id) >= UrgencyIn(prevIssues, id)

\* Two analysed tables with the same severity score for i1, a strictly larger
\* scope score in the second, and a strictly larger urgency.
C9_Witness ==
    /\ Identified
    /\ Len(prevSchools) > 0
    /\ "i1" \in IssuesOfBoth
    /\ FracEq(ExactSeverity("i1", prevSchools), ExactSeverity("i1", schools))
    /\ ~FracLe(ExactScope("i1", schools), ExactScope("i1", prevSchools))
    /\ UrgencyIn(issues, "i1") > UrgencyIn(prevIssues, "i1")

\* The same with equal scope and a strictly larger severity score.
C9_WitnessSeverity ==
    /\ Identified
    /\ Len(prevSchools) > 0
    /\ "i1" \in IssuesOfBoth
    /\ FracEq(ExactScope("i1", prevSchools), ExactScope("i1", schools))
    /\ ~FracLe(ExactSeverity("i1", schools), ExactSeverity("i1", prevSchools))
    /\ UrgencyIn(issues, "i1") > UrgencyIn(prevIssues, "i1")


(***************************************************************************)
(* Averages: claims C5 and C6, checked under SpecAvg.  The mean of a       *)
(* grouping is taken from the table cell by cell, over the rationals.      *)
(***************************************************************************)
\* The score of a cell if it is set and positive, else 0.
CellScore(school, metric) ==
    LET v == parseInt(Slot(school, metric))
    IN  IF ~v.nan /\ v.n > 0 THEN v.n ELSE 0

\* Sum and number of the set, positive scores of the metrics over the schools.
ExactMean(metricList, sch) ==
    [n |-> SumSeq([i \in 1..Len(sch) |->
                SumSeq([k \in 1..Len(metricList) |-> CellScore(sch[i], metricList[k])])]),
     d |-> SumSeq([i \in 1..Len(sch) |->
                SumSeq([k \in 1..Len(metricList) |->
                    IF CellScore(sch[i], metricList[k]) > 0 THEN 1 ELSE 0])])]

\* avg is the mean, or 0 when nothing contributes.
AvgIsMean(avg, mean) ==
    IF mean.d = 0 THEN avg = Num(0) ELSE avg = Rat(mean.n, mean.d)

\* avg is the mean rounded to the nearest hundredth (a half goes up), or 0.
AvgIsRoundedMean(avg, mean) ==
    IF mean.d = 0 THEN avg = Num(0)
    ELSE avg = Rat((200 * mean.n + mean.d) \div (2 * mean.d), 100)

DomainMetrics(c) ==
    FlatSeq([j \in 1..Len(HIERARCHICAL_CATEGORIES[c].subCategories) |->
                HIERARCHICAL_CATEGORIES[c].subCategories[j].metrics])

TierSubset(sch, t) == SelectSeq(sch, LAMBDA school : school.tier = t)

\* The sub-category and issue category averages are exact means, or 0.
ExactAveragesAreMeans ==
    /\ analysisData # NullAnalysis =>
          \A c \in 1..Len(HIERARCHICAL_CATEGORIES) :
          \A j \in 1..Len(HIERARCHICAL_CATEGORIES[c].subCategories) :
              AvgIsMean(heatmapData(analysisData)[c][j].average,
                        ExactMean(HIERARCHICAL_CATEGORIES[c].subCategories[j].metrics,
                                  analysisData.schools))
    /\ Identified =>
          \A k \in 1..Len(issues) :
              LET ms == MetricsOfIssue(issues[k].id)
              IN  /\ AvgIsMean(issues[k].overallAverage, ExactMean(ms, schools))
                  /\ AvgIsMean(issues[k].tier1Average, ExactMean(ms, TierSubset(schools, 1)))
                  /\ AvgIsMean(issues[k].tier2Average, ExactMean(ms, TierSubset(schools, 2)))
                  /\ AvgIsMean(issues[k].tier3Average, ExactMean(ms, TierSubset(schools, 3)))
    /\ \A id \in IssueIds : \A t \in 0..3 :
          LET subset == IF t = 0 THEN schools ELSE TierSubset(schools, t)
          IN  AvgIsMean(calculateAverageForCategory(id, subset),
                        ExactMean(MetricsOfIssue(id), subset))

C6_WitnessEmpty ==
    /\ analysisData # NullAnalysis
    /\ \A c \in 1..Len(HIERARCHICAL_CATEGORIES) :
          /\ ExactMean(DomainMetrics(c), analysisData.schools).d = 0
          /\ mainDomainAverages(analysisData)[c].value = Num(0)

\* The row with every slot holding a numeric value below 1 or above 4 unset.
CleanRow(school) ==
    [school EXCEPT !.scores =
        [f \in DOMAIN school.scores |->
            LET v == parseFloat(school.scores[f])
            IN  IF ~v.nan /\ (v.n < v.d \/ v.n > 4 * v.d) THEN <<>> ELSE school.scores[f]]]

CleanTable(sch) == [i \in 1..Len(sch) |-> CleanRow(sch[i])]

\* C5: scores outside [1,4] are excluded from every average: the tiering
\* average, the domain and sub-category averages, the report-card averages
\* and the issue category averages are what they are for the table with the
\* out-of-range slots unset.
C5_OutOfRangeExcluded ==
    /\ analysisData # NullAnalysis =>
          LET clean == [analysisData EXCEPT !.schools = CleanTable(analysisData.schools)]
          IN  /\ mainDomainAverages(analysisData) = mainDomainAverages(clean)
              /\ heatmapData(analysisData) = heatmapData(clean)
              /\ \A i \in 1..Len(analysisData.schools) :
                    /\ reportCardAverages(analysisData.schools[i])
                          = reportCardAverages(clean.schools[i])
                    /\ tierScores(analysisData.schools[i]) = tierScores(clean.schools[i])
    /\ Identified =>
          \A k \in 1..Len(issues) :
              /\ issues[k].overallAverage
                    = calculateAverageForCategory(issues[k].id, CleanTable(schools))
              /\ \A t \in 1..3 :
                    calculateAverageForCategory(issues[k].id, TierSubset(schools, t))
                        = calculateAverageForCategory(issues[k].id,
                              CleanTable(TierSubset(schools, t)))


(***************************************************************************)
(* Per-school detail rows: claim C11, checked under SpecDetails.           *)
(***************************************************************************)
\* The positions of the issue's metric set on which the school scored <= 2.
LowPositions(id, school) ==
    { k \in 1..Len(MetricsOfIssue(id)) :
        LET v == parseInt(Slot(school, MetricsOfIssue(id)[k]))
        IN  ~v.nan /\ v.n <= 2 * v.d }

SchoolWithId(sch, id) == sch[CHOOSE i \in 1..Len(sch) : sch[i].id = id]

\* The bucket of percentage = low / size * 100 over the rationals.
ExactDetailBucket(low, size) ==
    IF 100 * low >= 70 * size THEN "critical"
    ELSE IF 100 * low >= 40 * size THEN "high"
    ELSE "medium"

\* C11: for every per-school detail row of an issue with metric set M, the
\* percentage is (number of M's metrics on which the school scored <= 2) /
\* |M| * 100, unset metrics counting in |M|; the row is critical iff the
\* percentage >= 70, high iff 40 <= percentage < 70, medium otherwise.
C11_DetailSeverity ==
    Identified =>
        \A k \in 1..Len(issues) :
        \A r \in 1..Len(issues[k].schoolDetails) :
            LET row  == issues[k].schoolDetails[r]
                low  == Cardinality(LowPositions(issues[k].id,
                                                 SchoolWithId(schools, row.schoolId)))
                size == Len(MetricsOfIssue(issues[k].id))
            IN  /\ Len(row.affectedMetrics) = low
                /\ row.severity = ExactDetailBucket(low, size)
                /\ low = size => row.severity = "critical"

\* A row at exactly 40 percent, for a school with a metric of M unset, is "high".
C11_Witness ==
    /\ Identified
    /\ \E k \in 1..Len(issues) :
       \E r \in 1..Len(issues[k].schoolDetails) :
          LET row  == issues[k].schoolDetails[r]
              sc   == SchoolWithId(schools, row.schoolId)
              ms   == MetricsOfIssue(issues[k].id)
          IN  /\ 100 * Cardinality(LowPositions(issues[k].id, sc)) = 40 * Len(ms)
              /\ \E j \in 1..Len(ms) : Slot(sc, ms[j]) = <<>>
              /\ row.severity = "high"

\* Rows of all three severities occur: 1 of 5 ("medium") and 5 of 5 ("critical").
C11_WitnessMedium ==
    /\ Identified
    /\ \E k \in 1..Len(issues) :
          /\ Len(issues[k].schoolDetails) = 1
          /\ issues[k].schoolDetails[1].severity = "medium"


(***************************************************************************)
(* Order of the result: claim C12, checked under SpecIssues.               *)
(***************************************************************************)
\* The position of an issue definition in the catalog.
CatalogIndex(id) ==
    CHOOSE k \in 1..Len(issuesAndGoalsData) : issuesAndGoalsData[k].id = id

\* C12: the result is ordered by urgency descending, and two returned issues
\* of equal urgency are in the order of their definitions in the catalog.
C12_OrderedByUrgencyStable ==
    Identified =>
        \A j, k \in 1..Len(issues) :
            j < k =>
                /\ issues[j].urgency >= issues[k].urgency
                /\ issues[j].urgency = issues[k].urgency
                       => CatalogIndex(issues[j].id) < CatalogIndex(issues[k].id)

\* Two issues of equal urgency are returned.
C12_Witness ==
    /\ Identified
    /\ Len(issues) = 2
    /\ issues[1].urgency = issues[2].urgency
    /\ issues[1].id = "i1" /\ issues[2].id = "i2"

\* The later definition is returned first, its urgency being higher.
C12_WitnessReordered ==
    /\ Identified
    /\ Len(issues) = 2
    /\ issues[1].urgency > issues[2].urgency
    /\ issues[1].id = "i2" /\ issues[2].id = "i1"


(***************************************************************************)
(* Systemic strengths: claim C13, checked under SpecCard.                  *)
(***************************************************************************)
\* The sub-categories of the taxonomy in declaration order.
SubCategoryList ==
    FlatSeq([c \in 1..Len(HIERARCHICAL_CATEGORIES) |->
                HIERARCHICAL_CATEGORIES[c].subCategories])

\* The positions in SubCategoryList of those with a contributing score.
ScoredSubCategories ==
    { j \in 1..Len(SubCategoryList) :
        ExactMean(SubCategoryList[j].metrics, analysisData.schools).d > 0 }

SubCategoryIndex(name) ==
    CHOOSE j \in 1..Len(SubCategoryList) : SubCategoryList[j].name = name

\* x < y for fractions with positive denominators.
FracLt(x, y) == x.n * y.d < y.n * x.d

\* C13: systemicStrengths returns at most 5 sub-categories, each with a
\* contributing score and its average, sorted by average descending with ties
\* in declaration order; no omitted sub-category with contributing scores has
\* a strictly higher average than a returned one.
C13_SystemicStrengths ==
    Analysed =>
        LET result   == systemicStrengths(analysisData)
            pos(i)   == SubCategoryIndex(result[i].name)
            mean(j)  == ExactMean(SubCategoryList[j].metrics, analysisData.schools)
            returned == { pos(i) : i \in 1..Len(result) }
        IN  /\ Len(result) <= 5
            /\ Cardinality(returned) = Len(result)
            /\ returned \subseteq ScoredSubCategories
            /\ \A i \in 1..Len(result) : AvgIsMean(result[i].average, mean(pos(i)))
            /\ \A i, j \in 1..Len(result) :
                  i < j => /\ ~FracLt(mean(pos(i)), mean(pos(j)))
                           /\ FracEq(mean(pos(i)), mean(pos(j))) => pos(i) < pos(j)
            /\ \A o \in ScoredSubCategories \ returned :
                  /\ Len(result) = 5
                  /\ \A r \in returned : ~FracLt(mean(r), mean(o))

\* Six sub-categories have scores; five are returned, two of them tied, and
\* the omitted one is not the last declared.
C13_Witness ==
    /\ Analysed
    /\ Cardinality(ScoredSubCategories) = 6
    /\ LET result == systemicStrengths(analysisData)
       IN  /\ Len(result) = 5
           /\ \E i \in 1..4 : result[i].average = result[i + 1].average
           /\ \E i \in 1..5 : result[i].name = SubCategoryList[Len(SubCategoryList)].name


(***************************************************************************)
(* The summary: claim C14, checked under SpecSummary.                      *)
(***************************************************************************)
\* The number a string of decimal digits denotes; 0 for the empty string.
RECURSIVE StudentCount(_)
StudentCount(str) ==
    IF str = <<>> THEN 0
    ELSE 10 * StudentCount(SubSeq(str, 1, Len(str) - 1))
         + (CHOOSE d \in 0..9 : DigitChars[d + 1] = str[Len(str)])

RowsOfTier(t) == { i \in 1..Len(analysisData.schools) : analysisData.schools[i].tier = t }

\* C14: totalSchools is the number of rows, lowPerformanceSchools the number
\* of rows of tier 3, excellentSchools the number of rows of tier 1, and
\* totalStudents the sum of the rows' student counts, an unset count being 0.
C14_Summary ==
    Analysed =>
        /\ analysisData.summary.totalSchools = Len(schoolsData)
        /\ analysisData.summary.lowPerformanceSchools = Cardinality(RowsOfTier(3))
        /\ analysisData.summary.excellentSchools = Cardinality(RowsOfTier(1))
        /\ analysisData.summary.totalStudents =
              SumSeq([i \in 1..Len(schoolsData) |-> StudentCount(schoolsData[i].students)])

\* Three rows of tiers 1, 2 and 3, one of them with no student count, 127
\* students in all.
C14_Witness ==
    /\ Analysed
    /\ Len(schoolsData) = 3
    /\ \A t \in 1..3 : Cardinality(RowsOfTier(t)) = 1
    /\ \E i \in 1..3 : schoolsData[i].students = <<>>
    /\ analysisData.summary.totalStudents = 127


(***************************************************************************)
(* The report card: claims C15, C16 and C17, checked under SpecCard.       *)
(***************************************************************************)
CardOf(i) == createReportCardData(analysisData, schoolsData[i].id)

\* C15: for every school the report card's overallAverage is the mean of its
\* set, positive scores (0 if none) and domainAverages has, for every category
\* of the taxonomy, the mean of its set, positive scores on that category's
\* metrics (0 if none).
C15_ReportCardAverages ==
    Analysed =>
        \A i \in 1..Len(schoolsData) : \A card \in {CardOf(i)} :
            /\ card # NullReportCard
            /\ AvgIsMean(card.overallAverage,
                         ExactMean(ALL_SCORE_FIELDS, <<schoolsData[i]>>))
            /\ Len(card.domainAverages) = Len(HIERARCHICAL_CATEGORIES)
            /\ \A c \in 1..Len(HIERARCHICAL_CATEGORIES) :
                  /\ card.domainAverages[c].name = HIERARCHICAL_CATEGORIES[c].name
                  /\ AvgIsMean(card.domainAverages[c].average,
                               ExactMean(DomainMetrics(c), <<schoolsData[i]>>))

\* The second school of a table: one category without a score (average 0),
\* the other with scores 3 and 4 among unset ones, overall average 7/2.
C15_Witness ==
    /\ Analysed
    /\ Len(schoolsData) = 2
    /\ ExactMean(DomainMetrics(1), <<schoolsData[2]>>).d = 0
    /\ CardOf(2).domainAverages[1].average = Num(0)
    /\ ExactMean(DomainMetrics(2), <<schoolsData[2]>>).d = 2
    /\ CardOf(2).domainAverages[2].average = Rat(7, 2)
    /\ CardOf(2).overallAverage = Rat(7, 2)

\* The metrics in taxonomy order, each with the name of its sub-category.
TaxonomyMetrics ==
    FlatSeq([j \in 1..Len(SubCategoryList) |->
                [k \in 1..Len(SubCategoryList[j].metrics) |->
                    [metric |-> SubCategoryList[j].metrics[k], sub |-> j]]])

TaxonomyIndex(metric) ==
    CHOOSE k \in 1..Len(TaxonomyMetrics) : TaxonomyMetrics[k].metric = metric

\* C16: the strengths list has at most 6 entries, each for a metric the
\* school scored >= 3.2, ordered by score descending with ties in taxonomy
\* order; a metric scored >= 3.2 is omitted only if 6 entries precede it
\* (a higher score, or an equal score and an earlier place in the taxonomy).
C16_Strengths ==
    Analysed =>
        \A i \in 1..Len(schoolsData) : \A card \in {CardOf(i)} :
            LET result   == card.strengths
                pos(e)   == TaxonomyIndex(result[e].name)
                score(k) == CellScore(schoolsData[i], TaxonomyMetrics[k].metric)
                listed   == { pos(e) : e \in 1..Len(result) }
            IN  /\ Len(result) <= 6
                /\ Cardinality(listed) = Len(result)
                /\ \A e \in 1..Len(result) :
                      /\ 10 * score(pos(e)) >= 32
                      /\ result[e].subCategory =
                            SubCategoryList[TaxonomyMetrics[pos(e)].sub].name
                /\ \A e, f \in 1..Len(result) :
                      e < f => \/ score(pos(e)) > score(pos(f))
                               \/ score(pos(e)) = score(pos(f)) /\ pos(e) < pos(f)
                /\ \A k \in 1..Len(TaxonomyMetrics) :
                      (10 * score(k) >= 32 /\ k \notin listed) =>
                          /\ Len(result) = 6
                          /\ \A e \in 1..6 :
                                \/ score(pos(e)) > score(k)
                                \/ score(pos(e)) = score(k) /\ pos(e) < k

\* Seven metrics scored 4: six strengths, the last metric of the taxonomy
\* left out; and a school with scores of 3 only has no strength.
C16_Witness ==
    /\ Analysed
    /\ \A f \in 1..NumFields : Slot(schoolsData[1], f) = <<"4">>
    /\ Len(CardOf(1).strengths) = 6
    /\ \A e \in 1..6 :
          CardOf(1).strengths[e].name # TaxonomyMetrics[Len(TaxonomyMetrics)].metric

C16_WitnessBelow ==
    /\ Analysed
    /\ \A f \in 1..NumFields : Slot(schoolsData[1], f) = <<"3">>
    /\ CardOf(1).strengths = <<>>

\* The mean of the school's scored metrics of sub-category j is below 3.5.
SubCategoryBelow(row, j) ==
    LET mean == ExactMean(SubCategoryList[j].metrics, <<row>>)
    IN  mean.d > 0 /\ 2 * mean.n < 7 * mean.d

\* The metrics that are to have a challenge entry, in taxonomy order.
ExpectedChallenges(row) ==
    SelectSeq(TaxonomyMetrics, LAMBDA tm :
        /\ CellScore(row, tm.metric) > 0
        /\ CellScore(row, tm.metric) <= 3
        /\ SubCategoryBelow(row, tm.sub))

\* C17: the challenges list has exactly one entry for metric m of
\* sub-category s iff the school's score on m is set, positive and <= 3 and
\* the mean of its scored metrics in s is below 3.5; entries are in taxonomy
\* order.
C17_Challenges ==
    Analysed =>
        \A i \in 1..Len(schoolsData) : \A card \in {CardOf(i)} :
            \A expected \in {ExpectedChallenges(schoolsData[i])} :
                /\ Len(card.challenges) = Len(expected)
                /\ \A k \in 1..Len(expected) :
                      /\ card.challenges[k].subCategory =
                            SubCategoryList[expected[k].sub].name
                      /\ card.challenges[k].text[2] = expected[k].metric
                      /\ card.challenges[k].text[1] =
                            (IF expected[k].metric \in DOMAIN METRIC_TO_CHALLENGE_MAP
                             THEN "challenge" ELSE "generic")

\* A sub-category with scores 3 and 4 (mean 3.5) gives no entry for its
\* metric scored 3, while two other sub-categories scored 3 give theirs.
C17_Witness ==
    /\ Analysed
    /\ Len(schoolsData) = 1
    /\ Slot(schoolsData[1], 1) = <<"3">> /\ Slot(schoolsData[1], 2) = <<"4">>
    /\ Slot(schoolsData[1], 3) = <<"3">> /\ Slot(schoolsData[1], 5) = <<"3">>
    /\ Len(CardOf(1).challenges) >= 2
    /\ CardOf(1).challenges[1].text # METRIC_TO_CHALLENGE_MAP[1]
    /\ CardOf(1).challenges[1].subCategory = SubCategoryList[2].name
    /\ CardOf(1).challenges[2].text = <<"generic", 5>>


(***************************************************************************)
(* The analysis and its input: claims C18 and C19, checked under SpecTable.*)
(***************************************************************************)
\* The rows that an analysis result was computed from.
InputOf(analysis) ==
    [i \in 1..Len(analysis.schools) |->
        [f \in DOMAIN analysis.schools[i] \ {"tier"} |-> analysis.schools[i][f]]]

C19_TiersNeverStale ==
    ~pendingEffect =>
        /\ Analysed
        /\ Len(analysisData.schools) = Len(schoolsData)
        /\ \A i \in 1..Len(schoolsData) :
              /\ analysisData.schools[i] = SchoolForAnalysis(schoolsData[i])
              /\ TierOf(i) = getTier(schoolsData[i])

\* A table analysed again after an edit that moved a row from tier 3 to
\* tier 2, next to a row added by addSchool.
C19_Witness ==
    /\ ~pendingEffect /\ Analysed
    /\ Len(schoolsData) = 2
    /\ Slot(schoolsData[1], 1) = <<"4">> /\ Slot(schoolsData[1], 2) = <<"2">>
    /\ TierOf(1) = 2
    /\ schoolsData[2] = createEmptySchool(2)


(***************************************************************************)
(* The displayed issues: claim C20, checked under SpecStale.               *)
(***************************************************************************)
\* C20: whenever the issue step is not analyzing, the displayed issue list
\* is the identification result for the current schools and the current
\* focus areas, which is empty when there are no schools or no focus areas.
C20_IssuesNeverStale ==
    ~isAnalyzing =>
        issues = (IF Len(schools) = 0 \/ Len(selectedFocusAreas) = 0 THEN <<>>
                  ELSE identifiedIssues(schools, selectedFocusAreas))


(***************************************************************************)
(* The ids of the score table: claim C21, checked under SpecTable.         *)
(***************************************************************************)
IdsOf(table) == [i \in 1..Len(table) |-> table[i].id]

\* s is t with some of its elements left out.
RECURSIVE IsSubSeq(_, _)
IsSubSeq(s, t) ==
    IF s = <<>> THEN TRUE
    ELSE IF t = <<>> THEN FALSE
    ELSE IF Head(s) = Head(t) THEN IsSubSeq(Tail(s), Tail(t))
    ELSE IsSubSeq(s, Tail(t))

\* C21: in every table reached by addSchool, removeSchool and updateSchool
\* the ids are distinct positive integers, none of them the id of a school
\* that was removed; a step keeps the id of every row it keeps (an update
\* keeps all ids, an addition keeps them and appends one, a removal leaves
\* some out).
C21_IdsUniqueAndStable ==
    /\ [](/\ \A i \in 1..Len(schoolsData) : schoolsData[i].id \in Nat \ {0}
          /\ \A i, j \in 1..Len(schoolsData) :
                schoolsData[i].id = schoolsData[j].id => i = j
          /\ \A i \in 1..Len(schoolsData) : schoolsData[i].id \notin removedIds)
    /\ [][ /\ Len(schoolsData') = Len(schoolsData) => IdsOf(schoolsData') = IdsOf(schoolsData)
           /\ Len(schoolsData') > Len(schoolsData) =>
                 SubSeq(IdsOf(schoolsData'), 1, Len(schoolsData)) = IdsOf(schoolsData)
           /\ Len(schoolsData') < Len(schoolsData) =>
                 IsSubSeq(IdsOf(schoolsData'), IdsOf(schoolsData))
         ]_vars

\* School 1 was removed and a school added afterwards, which got id 2.
C21_Witness ==
    /\ removedIds = {1}
    /\ IdsOf(schoolsData) = <<2>>
    /\ nextId = 3


(***************************************************************************)
(* The detail rows of an issue: claim C22, checked under SpecIssues.       *)
(***************************************************************************)
\* The ids of the schools counted as affected by the issue, in table order.
AffectedIdsInOrder(id, sch) ==
    LET idx == SelectSeq([i \in 1..Len(sch) |-> i],
                         LAMBDA i : i \in AffectedSchools(id, sch))
    IN  [r \in 1..Len(idx) |-> sch[idx[r]].id]

\* C22: for every returned issue the number of detail rows is affectedSchools
\* and the rows are those of the schools counted as affected (a set, positive
\* score <= 2 on a metric of the issue), in the order of the score table.
C22_DetailsMatchAffected ==
    Identified =>
        \A k \in 1..Len(issues) :
            /\ Len(issues[k].schoolDetails) = issues[k].affectedSchools
            /\ [r \in 1..Len(issues[k].schoolDetails) |-> issues[k].schoolDetails[r].schoolId]
                  = AffectedIdsInOrder(issues[k].id, schools)


(***************************************************************************)
(* The tier and the displayed average: claim C23, checked under SpecTier.  *)
(***************************************************************************)
\* C23: for every school with at least 5 positive scores, the tier is 3 iff
\* the overallAverage displayed in the school table and in the report card
\* is below 2.2, and a tier of 1 implies that it is above 3.2.
C23_TierMatchesDisplayedAverage ==
    Analysed =>
        \A i \in 1..Len(schoolsData) :
            RowStats(schoolsData[i], 1).cnt >= 5 =>
                \A shown \in { schoolTableData(analysisData)[i].overallAverage,
                               CardOf(i).overallAverage } :
                    /\ (TierOf(i) = 3) <=> RatLt(shown, Rat(22, 10))
                    /\ (TierOf(i) = 1) => RatGt(shown, Rat(32, 10))


(***************************************************************************)
(* The ranked list and the buckets: claim C24, checked under SpecRank.     *)
(***************************************************************************)
BucketRank(severity) ==
    CASE severity = "critical" -> 4
      [] severity = "high"     -> 3
      [] severity = "medium"   -> 2
      [] severity = "low"      -> 1

\* C24: of any two returned issues the one listed first has a severity
\* bucket at least as severe as the other's.
C24_BucketsNeverRise ==
    Identified =>
        \A j, k \in 1..Len(issues) :
            j < k => BucketRank(issues[j].severity) >= BucketRank(issues[k].severity)


(***************************************************************************)
(* The selection of issues: claim C25, checked under SpecSelect.           *)
(***************************************************************************)
SeqToSet(s) == { s[k] : k \in 1..Len(s) }

NoDuplicates(s) == \A j, k \in 1..Len(s) : s[j] = s[k] => j = k

\* What a click on the card of issueId is said to make of the selection prev.
ClickedAsClaimed(prev, next, issueId) ==
    IF issueId \in SeqToSet(prev)
    THEN /\ SeqToSet(next) = SeqToSet(prev) \ {issueId}
         /\ Len(next) = Len(prev) - 1
         /\ IsSubSeq(next, prev)
    ELSE IF Len(prev) < 3
    THEN next = prev \o <<issueId>>
    ELSE next = prev

\* C25: selectedIssues holds at most 3 ids and no id twice; a click on a
\* selected id removes exactly that id, a click on an unselected id adds it
\* only when fewer than 3 are selected and otherwise changes nothing.
C25_SelectionAtMostThree ==
    /\ [](/\ Len(selectedIssues) <= 3
          /\ NoDuplicates(selectedIssues)
          /\ \A issueId \in ResultIds :
                ClickedAsClaimed(selectedIssues,
                                 toggleIssue(selectedIssues, issueId), issueId))
    /\ [][selectedIssues' # selectedIssues =>
             \E issueId \in ResultIds :
                 ClickedAsClaimed(selectedIssues, selectedIssues', issueId)]_vars

\* Three issues are selected and a fourth, unselected one is displayed.
C25_Witness ==
    /\ ListShown
    /\ Len(selectedIssues) = 3
    /\ \E issueId \in ResultIds : issueId \notin SeqToSet(selectedIssues)


(***************************************************************************)
(* What Continue hands over: claim C26, checked under SpecContinue.        *)
(***************************************************************************)
\* C26: when Continue is pressed with a non-empty issue list, onComplete
\* receives between one and three issues, each of the current issue list.
C26_ContinueHandsOverSelection ==
    (onCompleteCall.called /\ Len(issues) > 0) =>
        /\ Len(onCompleteCall.issues) \in 1..3
        /\ \A k \in 1..Len(onCompleteCall.issues) :
              \E j \in 1..Len(issues) : issues[j] = onCompleteCall.issues[k]


(***************************************************************************)
(* The delayed analysis: claim C27, checked under SpecTimer.               *)
(***************************************************************************)
\* A scheduled callback runs on this step of the mounted issue step.
Fired ==
    /\ Len(timeouts') < Len(timeouts)
    /\ mounted' = mounted
    /\ schools' = schools
    /\ selectedFocusAreas' = selectedFocusAreas

\* C27: at most one delayed analysis is pending, it is that of the current
\* schools and focus areas of the mounted step, and an analysis that runs
\* sets the issues to the result for the current schools and focus areas.
C27_OnlyLatestAnalysisRuns ==
    /\ [](/\ Len(timeouts) <= 1
          /\ \A k \in 1..Len(timeouts) :
                /\ mounted
                /\ timeouts[k].schools = schools
                /\ timeouts[k].focus = selectedFocusAreas)
    /\ [][Fired =>
             /\ mounted
             /\ issues' = analyzeSchoolData(schools, selectedFocusAreas, issues)]_vars

\* The step was rendered again while a timer was pending: the pending timer
\* is that of the second render after an analysis (issues are held, and the
\* history is empty because the render before had not completed its own).
C27_Witness ==
    /\ Len(timeouts) = 1
    /\ Len(issues) > 0
    /\ prevSchools = <<>>
    /\ isAnalyzing

\* The step was taken off the screen while its timer was pending.
C27_WitnessUnmount ==
    /\ ~mounted
    /\ isAnalyzing
    /\ Len(schools) > 0
    /\ timeouts = <<>>


(***************************************************************************)
(* Leaving the analyzing state: claim C28, checked under SpecLive.         *)
(***************************************************************************)
\* The step is rendered with other schools or focus areas.
InputsChange ==
    schools' # schools \/ selectedFocusAreas' # selectedFocusAreas

\* C28: a change of the inputs leaves isAnalyzing true, or false with the
\* issues cleared when there are no schools; isAnalyzing becomes true only
\* by a change of the inputs and false otherwise only when the timer fires;
\* unless the inputs change for ever, isAnalyzing is false from some point on.
C28_LeavesAnalyzing ==
    /\ [][InputsChange =>
             IF Len(schools') > 0
             THEN isAnalyzing' /\ Len(timeouts') = 1
             ELSE ~isAnalyzing' /\ issues' = <<>> /\ timeouts' = <<>>]_vars
    /\ [][(~isAnalyzing /\ isAnalyzing') => InputsChange]_vars
    /\ [][(isAnalyzing /\ ~isAnalyzing' /\ ~InputsChange) =>
             Len(timeouts') < Len(timeouts)]_vars
    /\ ([]<><<InputsChange>>_vars) \/ <>[](~isAnalyzing)

\* The inputs changed after an analysis had completed, and the analysis of
\* the new inputs has completed as well.
C28_Witness ==
    /\ mounted
    /\ ~isAnalyzing
    /\ timeouts = <<>>
    /\ Len(schools) > 0
    /\ prevSchools # <<>>
    /\ prevSchools # schools

=============================================================================
